---- MODULE Spec2Model ----
(***************************************************************************)
(* Sprint analysis automation: the record normalizer, the aggregator, the  *)
(* metric engine and the validator of src/automation, and the pipeline of  *)
(* src/streamlit_app.py that drives them.                                   *)
(*                                                                         *)
(* Numbers.  Work quantities and capacities are integers.  A quotient is   *)
(* an exact rational [n, d] in lowest terms with d > 0; the record with    *)
(* d = 0 stands for a division that did not produce a number (Python's     *)
(* ZeroDivisionError).                                                      *)
(* Text.  A string the code parses is a sequence of one-character strings. *)
(* A missing cell (None / NaN) is the value NaN.                           *)
(***************************************************************************)
EXTENDS Integers, Sequences, FiniteSets, TLC

VARIABLES
    pc,             \* position of the running invocation
    call,           \* the last call of a ratio operation: operation, arguments, result
    init_arg,       \* the argument SprintCalculator was built with
    kpi_weights,    \* SprintCalculator.kpi_weights
    columns,        \* the column names of the raw table
    df,             \* the raw rows read from the Data sheet
    azure_data,     \* the rows as normalized by process_azure_data
    validation,     \* the report of validate_data
    capacity_sheet, \* the member rows of the Capacity sheet
    capacity_data,  \* the table returned by get_capacity_data
    staff_agg,      \* the groups of aggregate_by_staff
    team_agg,       \* the groups of aggregate_by_team
    staff_metrics,  \* the rows of calculate_staff_metrics
    team_metrics,   \* the rows of calculate_team_metrics
    sprint_metadata,    \* the cells extract_sprint_metadata read from the Data sheet
    cmmi_measures,      \* the measures of calculate_cmmi_measures
    workbook,           \* the workbook of the ExcelUpdater: sheets written, saved or not
    temp_file,          \* the file temp_sprint.xlsx in the working directory of the server
    database_ids,       \* NotionExporter.database_ids: the names of the configured databases
    requests,           \* the requests posted to the Notion API, each with its outcome
    result,             \* what process_sprint_file returned
    exception,          \* the exception the invocation raised
    metrics_validation  \* the report of validate_metrics

vars == <<pc, call, init_arg, kpi_weights, columns, df, azure_data, validation,
          capacity_sheet, capacity_data, staff_agg, team_agg,
          staff_metrics, team_metrics, sprint_metadata, cmmi_measures, workbook, temp_file, database_ids, requests,
          result, exception, metrics_validation>>

----------------------------------------------------------------------------
(* Exact rational arithmetic *)

Abs(x) == IF x < 0 THEN -x ELSE x

RECURSIVE GCD(_, _)
GCD(a, b) == IF b = 0 THEN a ELSE GCD(b, a % b)

\* The rational n/d in lowest terms, d /= 0.
Norm(n, d) ==
    LET g == GCD(Abs(n), Abs(d))
        s == IF d < 0 THEN -1 ELSE 1
    IN  [n |-> (s * n) \div g, d |-> (s * d) \div g]

\* The outcome of a division by zero.
DivError == [n |-> 0, d |-> 0]

IsNumber(q) == q.d > 0

Int2Rat(i) == [n |-> i, d |-> 1]

Zero == Int2Rat(0)

\* Python's a / b on two rationals.
RatDiv(a, b) ==
    IF ~IsNumber(a) \/ ~IsNumber(b) \/ b.n = 0 THEN DivError
    ELSE Norm(a.n * b.d, a.d * b.n)

RatMul(a, b) ==
    IF ~IsNumber(a) \/ ~IsNumber(b) THEN DivError
    ELSE Norm(a.n * b.n, a.d * b.d)

RatAdd(a, b) ==
    IF ~IsNumber(a) \/ ~IsNumber(b) THEN DivError
    ELSE Norm(a.n * b.d + b.n * a.d, a.d * b.d)

RatSub(a, b) == RatAdd(a, RatMul(Int2Rat(-1), b))

RatLess(a, b) == a.n * b.d < b.n * a.d

RatLeq(a, b) == a.n * b.d <= b.n * a.d

\* a / b on two integers.
Div(a, b) == RatDiv(Int2Rat(a), Int2Rat(b))

----------------------------------------------------------------------------
(* SprintCalculator: the five ratios and the composite KPI *)

\* Variant: the division without the test of the denominator.
calculate_performance_rate_noguard(original_estimate, completed_work, remaining_work) ==
    Div(original_estimate, completed_work + remaining_work)

\* Variant: completed work, not the original estimate, over the denominator.
calculate_performance_rate_completed(original_estimate, completed_work, remaining_work) ==
    LET denominator == completed_work + remaining_work
    IN  IF denominator = 0 THEN Zero ELSE Div(completed_work, denominator)

calculate_performance_rate(original_estimate, completed_work, remaining_work) ==
    LET denominator == completed_work + remaining_work
    IN  IF denominator = 0 THEN Zero ELSE Div(original_estimate, denominator)

calculate_utilization(completed_work, capacity) ==
    IF capacity = 0 THEN Zero ELSE Div(completed_work, capacity)

calculate_done_tasks_percentage(done_count, total_count) ==
    IF total_count = 0 THEN Zero ELSE Div(done_count, total_count)

calculate_midsprint_addition_percentage(midsprint_work, total_work) ==
    IF total_work = 0 THEN Zero ELSE Div(midsprint_work, total_work)

calculate_adhoc_percentage(adhoc_work, total_work) ==
    IF total_work = 0 THEN Zero ELSE Div(adhoc_work, total_work)

\* SprintCalculator.__init__ without weights.
DefaultWeights ==
    [performance_rate |-> Norm(2, 10), utilization |-> Norm(1, 10), done_tasks |-> Norm(7, 10)]

\* An argument of the constructor: None, or a dict (empty, or with the three weights).
NoneArg == [kind |-> "None", w |-> DefaultWeights]

EmptyDict == [kind |-> "empty", w |-> DefaultWeights]

DictArg(w) == [kind |-> "dict", w |-> w]

\* Python's truth value of the argument: None and {} are false.
Truthy(arg) == arg.kind = "dict"

\* self.kpi_weights = kpi_weights or {...}
InitWeights(arg) == IF Truthy(arg) THEN arg.w ELSE DefaultWeights

\* Variant: utilization weighted with the weight of the done tasks.
calculate_kpi_sameweight(weights, performance_rate, utilization, done_tasks_pct) ==
    RatAdd(RatAdd(RatMul(performance_rate, weights.performance_rate),
                  RatMul(utilization, weights.done_tasks)),
           RatMul(done_tasks_pct, weights.done_tasks))

calculate_kpi(weights, performance_rate, utilization, done_tasks_pct) ==
    RatAdd(RatAdd(RatMul(performance_rate, weights.performance_rate),
                  RatMul(utilization, weights.utilization)),
           RatMul(done_tasks_pct, weights.done_tasks))

----------------------------------------------------------------------------
(* Text *)

\* A missing value in a column of parsed text (None / NaN): no string has an
\* element that is not one character.
NaN == <<"NaN">>

\* A missing value in a column of labels (Activity, State, team).
NA == "NaN"

IsSpace(c) == c = " "

Lower(c) ==
    CASE c = "A" -> "a" [] c = "B" -> "b" [] c = "C" -> "c" [] c = "D" -> "d"
      [] c = "E" -> "e" [] c = "F" -> "f" [] c = "G" -> "g" [] c = "H" -> "h"
      [] c = "I" -> "i" [] c = "J" -> "j" [] c = "K" -> "k" [] c = "L" -> "l"
      [] c = "M" -> "m" [] c = "N" -> "n" [] c = "O" -> "o" [] c = "P" -> "p"
      [] c = "Q" -> "q" [] c = "R" -> "r" [] c = "S" -> "s" [] c = "T" -> "t"
      [] c = "U" -> "u" [] c = "V" -> "v" [] c = "W" -> "w" [] c = "X" -> "x"
      [] c = "Y" -> "y" [] c = "Z" -> "z" [] OTHER -> c

LowerStr(s) == [i \in 1..Len(s) |-> Lower(s[i])]

\* str.contains(pat, case=False) for a pattern without regex operators.
ContainsNoCase(s, pat) ==
    \E i \in 1..(Len(s) - Len(pat) + 1) :
        LowerStr(SubSeq(s, i, i + Len(pat) - 1)) = LowerStr(pat)

\* .str.extract(r'<(.+?)>')[0]: the leftmost '<' that has a '>' at least two
\* places on, up to the first such '>'.
ExtractEmail(s) ==
    IF s = NaN THEN NaN
    ELSE LET Opens == {i \in 1..Len(s) : s[i] = "<" /\ \E j \in (i+2)..Len(s) : s[j] = ">"}
         IN  IF Opens = {} THEN NaN
             ELSE LET i == CHOOSE x \in Opens : \A y \in Opens : x <= y
                      Closes == {j \in (i+2)..Len(s) : s[j] = ">"}
                      j == CHOOSE x \in Closes : \A y \in Closes : x <= y
                  IN  SubSeq(s, i + 1, j - 1)

\* .str.extract(r'^(.+?)\s*<')[0]: the shortest non-empty prefix that is
\* followed by optional white space and a '<'.
ExtractName(s) ==
    IF s = NaN THEN NaN
    ELSE LET Ends == {k \in 1..Len(s) :
                         \E m \in (k+1)..Len(s) :
                             /\ s[m] = "<"
                             /\ \A t \in (k+1)..(m-1) : IsSpace(s[t])}
         IN  IF Ends = {} THEN NaN
             ELSE SubSeq(s, 1, CHOOSE k \in Ends : \A y \in Ends : k <= y)

\* staff['staff_name'] + ' <' + staff['staff_email'] + '>'
IdentityString(staff_name, staff_email) ==
    staff_name \o <<" ", "<">> \o staff_email \o <<">">>

Digits == <<"0", "1", "2", "3", "4", "5", "6", "7", "8", "9">>

IsDigit(c) == \E i \in 1..10 : Digits[i] = c

DigitValue(c) == (CHOOSE i \in 1..10 : Digits[i] = c) - 1

RECURSIVE DigitsValue(_)
DigitsValue(s) ==
    IF s = <<>> THEN 0
    ELSE 10 * DigitsValue(SubSeq(s, 1, Len(s) - 1)) + DigitValue(s[Len(s)])

AllDigits(s) == s /= <<>> /\ \A i \in 1..Len(s) : IsDigit(s[i])

\* A cell of a work-quantity column: a number, a text or nothing.
NumCell(v) == [num |-> TRUE, v |-> v, s |-> <<>>]

TextCell(s) == [num |-> FALSE, v |-> 0, s |-> s]

NaNCell == [num |-> FALSE, v |-> 0, s |-> NaN]

\* pd.to_numeric(cell, errors='coerce'): the number, the integer a text spells
\* (sign and digits), and otherwise NaN.
to_numeric(cell) ==
    IF cell.num THEN [na |-> FALSE, v |-> cell.v]
    ELSE IF cell.s = NaN THEN [na |-> TRUE, v |-> 0]
    ELSE IF AllDigits(cell.s) THEN [na |-> FALSE, v |-> DigitsValue(cell.s)]
    ELSE IF Len(cell.s) > 1 /\ cell.s[1] = "-" /\ AllDigits(Tail(cell.s))
         THEN [na |-> FALSE, v |-> -DigitsValue(Tail(cell.s))]
    ELSE IF Len(cell.s) > 1 /\ cell.s[1] = "+" /\ AllDigits(Tail(cell.s))
         THEN [na |-> FALSE, v |-> DigitsValue(Tail(cell.s))]
    ELSE [na |-> TRUE, v |-> 0]

\* .fillna(0)
fillna0(x) == IF x.na THEN 0 ELSE x.v

----------------------------------------------------------------------------
(* SprintDataProcessor: the record normalizer *)

\* Variant of team_mapping: an Activity that is no key is its own team.
team_mapping_passthrough(activity) == IF activity = "Front End" THEN "Frontend" ELSE activity

\* self.team_mapping, applied by Series.map: a key that is not in the dict
\* (a missing Activity too) gives NaN.
team_mapping(activity) ==
    CASE activity = "Development" -> "Development"
      [] activity = "Front End" -> "Frontend"
      [] activity = "Design" -> "Design"
      [] activity = "Testing" -> "Testing"
      [] activity = "Business" -> "Business"
      [] OTHER -> NA

MidSprintMarker ==
    <<"M", "i", "d", "S", "p", "r", "i", "n", "t", "_", "A", "d", "d", "i", "t", "i", "o", "n">>

AdhocMarker == <<"A", "d", "-", "h", "o", "c">>

\* df['Tags'].fillna('').str.contains(marker, case=False)
HasTag(tags, marker) ==
    LET filled == IF tags = NaN THEN <<>> ELSE tags
    IN  ContainsNoCase(filled, marker)

\* Variant of IsDoneState: the state compared without regard to case.
IsDoneStateNoCase(state) == state \in {"Done", "Closed", "done"}

\* df['State'].isin(['Done', 'Closed'])
IsDoneState(state) == state \in {"Done", "Closed"}

\* df.columns.str.strip() on the column names the model uses.
StripName(c) ==
    CASE c = "Title " -> "Title"
      [] c = " Tags" -> "Tags"
      [] OTHER -> c

StripColumns(cols) == {StripName(c) : c \in cols}

\* No exception was raised.
NoException == [type |-> "none", raised_in |-> "none"]

\* An exception of the given type, raised in the given function.
Raised(type, function) == [type |-> type, raised_in |-> function]

\* The columns process_azure_data indexes without a test.
IndexedColumns == {"Assigned To", "Activity", "Tags", "State"}

\* process_azure_data raises: a KeyError for an indexed column that is absent,
\* and an AttributeError of the .str accessor when the 'Assigned To' column of a
\* table with rows holds no string at all (pandas reads it as float64).
ProcessRaises(cols, rows) ==
    \/ ~(IndexedColumns \subseteq StripColumns(cols))
    \/ rows /= <<>> /\ \A i \in 1..Len(rows) : rows[i].Assigned_To = NaN

\* The exception of process_azure_data: line 69 reads 'Assigned To' first, and
\* calls .str on it.
ProcessException(cols, rows) ==
    IF "Assigned To" \in StripColumns(cols)
       /\ rows /= <<>> /\ \A i \in 1..Len(rows) : rows[i].Assigned_To = NaN
    THEN Raised("AttributeError", "process_azure_data")
    ELSE Raised("KeyError", "process_azure_data")

\* A work-quantity column after the loop over numeric_cols (a column that is
\* absent is left out of the model's row as 0; every later read of it raises).
NumericColumn(cols, name, cell) ==
    IF name \in StripColumns(cols) THEN fillna0(to_numeric(cell)) ELSE 0

\* One row of the frame process_azure_data returns.
ProcessRow(cols, r) ==
    [Assigned_To |-> r.Assigned_To,
     Activity |-> r.Activity,
     Tags |-> r.Tags,
     State |-> r.State,
     staff_email |-> ExtractEmail(r.Assigned_To),
     staff_name |-> ExtractName(r.Assigned_To),
     team |-> team_mapping(r.Activity),
     has_midsprint_addition |-> HasTag(r.Tags, MidSprintMarker),
     has_adhoc |-> HasTag(r.Tags, AdhocMarker),
     Original_Estimate |-> NumericColumn(cols, "Original Estimate", r.Original_Estimate),
     Completed_Work |-> NumericColumn(cols, "Completed Work", r.Completed_Work),
     Remaining_Work |-> NumericColumn(cols, "Remaining Work", r.Remaining_Work),
     is_done |-> IsDoneState(r.State)]

process_azure_data(cols, rows) == [i \in 1..Len(rows) |-> ProcessRow(cols, rows[i])]

----------------------------------------------------------------------------
(* SprintDataProcessor: the aggregator *)

\* The characters of the model in code-point order.
CodePoints ==
    <<" ", "+", "-", ".", "0", "1", "2", "3", "4", "5", "6", "7", "8", "9", ";", "<", ">", "@",
      "A", "B", "C", "D", "E", "F", "G", "H", "I", "J", "K", "L", "M", "N", "O", "P", "Q", "R",
      "S", "T", "U", "V", "W", "X", "Y", "Z", "_",
      "a", "b", "c", "d", "e", "f", "g", "h", "i", "j", "k", "l", "m", "n", "o", "p", "q", "r",
      "s", "t", "u", "v", "w", "x", "y", "z">>

Ord(c) == CHOOSE i \in 1..Len(CodePoints) : CodePoints[i] = c

\* a < b on two strings.
StrLess(a, b) ==
    \E i \in 1..(Len(b)) :
        /\ \A j \in 1..(i-1) : j <= Len(a) /\ a[j] = b[j]
        /\ \/ i = Len(a) + 1
           \/ i <= Len(a) /\ Ord(a[i]) < Ord(b[i])

\* The team names in sorted order.
TeamOrder == <<"Business", "Design", "Development", "Frontend", "Testing">>

TeamRank(t) == CHOOSE i \in 1..Len(TeamOrder) : TeamOrder[i] = t

\* Keys of the staff groups are <<staff_email, staff_name, team>>.
StaffKeyLess(a, b) ==
    \/ StrLess(a[1], b[1])
    \/ a[1] = b[1] /\ StrLess(a[2], b[2])
    \/ a[1] = b[1] /\ a[2] = b[2] /\ TeamRank(a[3]) < TeamRank(b[3])

RECURSIVE SortStaffKeys(_)
SortStaffKeys(K) ==
    IF K = {} THEN <<>>
    ELSE LET k == CHOOSE x \in K : \A y \in K \ {x} : StaffKeyLess(x, y)
         IN  <<k>> \o SortStaffKeys(K \ {k})

RECURSIVE SortTeams(_)
SortTeams(K) ==
    IF K = {} THEN <<>>
    ELSE LET k == CHOOSE x \in K : \A y \in K : TeamRank(x) <= TeamRank(y)
         IN  <<k>> \o SortTeams(K \ {k})

RECURSIVE SumSeq(_)
SumSeq(s) == IF s = <<>> THEN 0 ELSE Head(s) + SumSeq(Tail(s))

Column(rows, Get(_)) == [i \in 1..Len(rows) |-> Get(rows[i])]

Bool2Int(b) == IF b THEN 1 ELSE 0

\* Variant: a count of the items that are not done.
GroupCountNotDone(rows) == SumSeq(Column(rows, LAMBDA r : Bool2Int(~r.is_done)))

\* 'count' of the bool column is_done, which has no missing value
GroupCount(rows) == Len(rows)

\* The .agg({...}) of one group, under the flattened column names.
GroupReduce(rows) ==
    [original_estimate_total |-> SumSeq(Column(rows, LAMBDA r : r.Original_Estimate)),
     completed_work_total |-> SumSeq(Column(rows, LAMBDA r : r.Completed_Work)),
     remaining_work_total |-> SumSeq(Column(rows, LAMBDA r : r.Remaining_Work)),
     done_count |-> SumSeq(Column(rows, LAMBDA r : Bool2Int(r.is_done))),
     total_count |-> GroupCount(rows),
     midsprint_count |-> SumSeq(Column(rows, LAMBDA r : Bool2Int(r.has_midsprint_addition))),
     adhoc_count |-> SumSeq(Column(rows, LAMBDA r : Bool2Int(r.has_adhoc)))]

\* The columns .agg sums.
SummedColumns == {"Original Estimate", "Completed Work", "Remaining Work"}

\* groupby(...).agg raises a KeyError for a summed column that is absent.
AggregateRaises(cols) == ~(SummedColumns \subseteq cols)

\* groupby drops a row that has a missing key (dropna=True).
HasStaffKey(r) == r.staff_email /= NaN /\ r.staff_name /= NaN /\ r.team /= NA

StaffKey(r) == <<r.staff_email, r.staff_name, r.team>>

\* Variant: the rows of a group selected by the email alone.
StaffGroupRowsByEmail(rows, key) ==
    SelectSeq(rows, LAMBDA r : HasStaffKey(r) /\ r.staff_email = key[1])

StaffGroupRows(rows, key) ==
    SelectSeq(rows, LAMBDA r : HasStaffKey(r) /\ StaffKey(r) = key)

aggregate_by_staff(rows) ==
    LET keys == SortStaffKeys({StaffKey(rows[i]) : i \in {j \in 1..Len(rows) : HasStaffKey(rows[j])}})
    IN  [i \in 1..Len(keys) |->
            [staff_email |-> keys[i][1], staff_name |-> keys[i][2], team |-> keys[i][3]]
            @@ GroupReduce(StaffGroupRows(rows, keys[i]))]

HasTeamKey(r) == r.team /= NA

TeamGroupRows(rows, team) == SelectSeq(rows, LAMBDA r : HasTeamKey(r) /\ r.team = team)

aggregate_by_team(rows) ==
    LET keys == SortTeams({rows[i].team : i \in {j \in 1..Len(rows) : HasTeamKey(rows[j])}})
    IN  [i \in 1..Len(keys) |->
            [team |-> keys[i]] @@ GroupReduce(TeamGroupRows(rows, keys[i]))]

----------------------------------------------------------------------------
(* SprintDataProcessor: the capacity table and the structural validation *)

CapacityColumns ==
    {"staff_member", "team", "expected_hours", "vacation_hours", "days_off_hours",
     "remaining_capacity"}

\* pd.DataFrame(capacity_data) of the rows that name a member; the frame of an
\* empty list has no column at all.
get_capacity_data(sheet) ==
    LET rows == SelectSeq(sheet, LAMBDA e : e.staff_member /= NaN)
    IN  [columns |-> IF rows = <<>> THEN {} ELSE CapacityColumns, rows |-> rows]

required_cols ==
    <<"Work Item Type", "Title", "State", "Assigned To",
      "Original Estimate", "Completed Work", "Activity">>

\* Series.unique().tolist(): the distinct values in order of first appearance.
RECURSIVE Unique(_)
Unique(s) ==
    IF s = <<>> THEN <<>>
    ELSE LET u == Unique(SubSeq(s, 1, Len(s) - 1))
             x == s[Len(s)]
         IN  IF \E i \in 1..Len(u) : u[i] = x THEN u ELSE Append(u, x)

\* validate_data raises a KeyError when it reads df['Assigned To'] or
\* df['Completed Work'] of a table without that column, whatever it recorded
\* before ('team' and 'is_done' are columns process_azure_data adds).
ValidateRaises(cols) == ~({"Assigned To", "Completed Work"} \subseteq cols)

validate_data(cols, rows) ==
    LET missing_cols == SelectSeq(required_cols, LAMBDA c : c \notin cols)
        unassigned == SelectSeq(rows, LAMBDA r : r.Assigned_To = NaN)
        unmapped == SelectSeq(rows, LAMBDA r : r.team = NA)
        incomplete_with_work == SelectSeq(rows, LAMBDA r : r.Completed_Work > 0 /\ ~r.is_done)
    IN  [status |-> IF missing_cols /= <<>> THEN "error" ELSE "success",
         errors |-> IF missing_cols /= <<>>
                    THEN <<[type |-> "missing_columns", columns |-> missing_cols]>>
                    ELSE <<>>,
         warnings |->
            (IF unassigned /= <<>>
             THEN <<[type |-> "missing_assignments", count |-> Len(unassigned),
                     activities |-> <<>>]>>
             ELSE <<>>)
            \o (IF unmapped /= <<>>
                THEN <<[type |-> "unmapped_activities", count |-> 0,
                        activities |-> Unique(Column(unmapped, LAMBDA r : r.Activity))]>>
                ELSE <<>>)
            \o (IF incomplete_with_work /= <<>>
                THEN <<[type |-> "incomplete_tasks_with_work",
                        count |-> Len(incomplete_with_work), activities |-> <<>>]>>
                ELSE <<>>)]

----------------------------------------------------------------------------
(* SprintCalculator: the staff and team metrics *)

\* capacity = 63  # Default capacity
DefaultCapacity == 63

\* Variant: 0 for a staff member without an entry.
StaffCapacityZeroDefault(capacity_rows, staff) ==
    LET capacity_row == SelectSeq(capacity_rows,
            LAMBDA e : e.staff_member = IdentityString(staff.staff_name, staff.staff_email))
    IN  IF Len(capacity_row) = 0 THEN 0
        ELSE capacity_row[1].remaining_capacity

\* The capacity of a staff group: remaining_capacity of the first entry whose
\* staff_member is the rebuilt "name <email>" string, or the default.
StaffCapacity(capacity_rows, staff) ==
    LET capacity_row == SelectSeq(capacity_rows,
            LAMBDA e : e.staff_member = IdentityString(staff.staff_name, staff.staff_email))
    IN  IF Len(capacity_row) = 0 THEN DefaultCapacity
        ELSE capacity_row[1].remaining_capacity

\* Variant: the lookup of the staff capacity applied to a team.
TeamCapacityFirstOrDefault(capacity_rows, team) ==
    LET entries == SelectSeq(capacity_rows, LAMBDA e : e.team = team.team)
    IN  IF entries = <<>> THEN DefaultCapacity
        ELSE entries[1].remaining_capacity

\* The capacity of a team group: the sum over the entries of that team.
TeamCapacity(capacity_rows, team) ==
    SumSeq(Column(SelectSeq(capacity_rows, LAMBDA e : e.team = team.team),
                  LAMBDA e : e.remaining_capacity))

\* azure_data[azure_data['staff_email'] == staff['staff_email']]
StaffTasks(azure_rows, staff) ==
    SelectSeq(azure_rows, LAMBDA r : r.staff_email = staff.staff_email)

\* azure_data[azure_data['team'] == team['team']]
TeamTasks(azure_rows, team) ==
    SelectSeq(azure_rows, LAMBDA r : r.team = team.team)

\* tasks[tasks[flag]]['Completed Work'].sum()
MidsprintWork(tasks) ==
    SumSeq(Column(SelectSeq(tasks, LAMBDA r : r.has_midsprint_addition),
                  LAMBDA r : r.Completed_Work))

AdhocWork(tasks) ==
    SumSeq(Column(SelectSeq(tasks, LAMBDA r : r.has_adhoc), LAMBDA r : r.Completed_Work))

\* The ratios and the KPI of one group, given its capacity and its tagged work.
GroupMetrics(weights, g, capacity, midsprint_work, adhoc_work) ==
    LET performance_rate == calculate_performance_rate(
            g.original_estimate_total, g.completed_work_total, g.remaining_work_total)
        utilization == calculate_utilization(g.completed_work_total, capacity)
        done_tasks_pct == calculate_done_tasks_percentage(g.done_count, g.total_count)
    IN  [original_estimate |-> g.original_estimate_total,
         completed_work |-> g.completed_work_total,
         remaining_work |-> g.remaining_work_total,
         capacity |-> capacity,
         done_count |-> g.done_count,
         total_count |-> g.total_count,
         performance_rate |-> performance_rate,
         utilization |-> utilization,
         done_tasks_pct |-> done_tasks_pct,
         midsprint_addition_pct |->
            calculate_midsprint_addition_percentage(midsprint_work, g.completed_work_total),
         adhoc_pct |-> calculate_adhoc_percentage(adhoc_work, g.completed_work_total),
         kpi |-> calculate_kpi(weights, performance_rate, utilization, done_tasks_pct)]

\* calculate_staff_metrics raises a KeyError when it indexes a capacity table
\* without columns, which it does for the first group.
StaffMetricsRaises(groups, capacity) ==
    groups /= <<>> /\ "staff_member" \notin capacity.columns

calculate_staff_metrics(weights, groups, capacity, azure_rows) ==
    [i \in 1..Len(groups) |->
        LET staff == groups[i]
            staff_tasks == StaffTasks(azure_rows, staff)
        IN  [staff_name |-> staff.staff_name, staff_email |-> staff.staff_email,
             team |-> staff.team]
            @@ GroupMetrics(weights, staff, StaffCapacity(capacity.rows, staff),
                            MidsprintWork(staff_tasks), AdhocWork(staff_tasks))]

TeamMetricsRaises(groups, capacity) ==
    groups /= <<>> /\ "team" \notin capacity.columns

calculate_team_metrics(weights, groups, capacity, azure_rows) ==
    [i \in 1..Len(groups) |->
        LET team == groups[i]
            team_tasks == TeamTasks(azure_rows, team)
        IN  [team |-> team.team]
            @@ GroupMetrics(weights, team, TeamCapacity(capacity.rows, team),
                            MidsprintWork(team_tasks), AdhocWork(team_tasks))]

----------------------------------------------------------------------------
(* SprintCalculator: the CMMI measures *)

\* A cell of the Data sheet that holds a number.
IsNumeric(cell) == cell.num

\* The cell without a value (openpyxl reads it as None).
EmptyCell == [num |-> FALSE, v |-> 0, s |-> <<>>]

\* The cells calculate_cmmi_measures compares with 0, in the order it does.
ComparedCells(metadata) ==
    <<metadata.planned_sp, metadata.actual_dev_effort,
      metadata.sum_working_hours>>

\* The cells it divides, each under the comparison that guards the division.
DividedCells(metadata) ==
    (IF metadata.planned_sp.v > 0 THEN {metadata.actual_sp} ELSE {})
    \cup (IF metadata.actual_dev_effort.v > 0
          THEN {metadata.estimated_dev_effort, metadata.bug_fixing_effort}
          ELSE {})
    \cup (IF metadata.sum_working_hours.v > 0
          THEN {metadata.sum_actual_hours}
          ELSE {})
    \cup (IF metadata.sum_working_hours.v > 0 /\ metadata.sum_actual_hours.v > 0
          THEN {metadata.actual_sp}
          ELSE {})

\* calculate_cmmi_measures raises a TypeError when it compares or divides a
\* cell that holds no number.
CmmiRaises(metadata) ==
    \/ \E i \in 1..3 : ~IsNumeric(ComparedCells(metadata)[i])
    \/ \E cell \in DividedCells(metadata) : ~IsNumeric(cell)

GoodThreshold == Norm(9, 10)

AccuracyUpperLimit == Norm(6, 5)

\* Variant of completion_rate_analysis: 'Good' only above the threshold.
completion_rate_analysis_strict(completion_rate) ==
    IF RatLess(GoodThreshold, completion_rate) THEN "Good" ELSE "Needs Improvement"

\* 'Good' if cmmi['completion_rate'] >= 0.90 else 'Needs Improvement'
completion_rate_analysis(completion_rate) ==
    IF RatLeq(GoodThreshold, completion_rate) THEN "Good" ELSE "Needs Improvement"

\* 'Good' if 0.90 <= cmmi['effort_estimation_accuracy'] <= 1.20 else 'Needs Improvement'
effort_estimation_analysis(accuracy) ==
    IF RatLeq(GoodThreshold, accuracy) /\ RatLeq(accuracy, AccuracyUpperLimit)
    THEN "Good" ELSE "Needs Improvement"

calculate_cmmi_measures(metadata) ==
    LET planned_sp == metadata.planned_sp.v
        actual_sp == metadata.actual_sp.v
        estimated_dev_effort == metadata.estimated_dev_effort.v
        actual_dev_effort == metadata.actual_dev_effort.v
        bug_fixing_effort == metadata.bug_fixing_effort.v
        sum_actual_hours == metadata.sum_actual_hours.v
        sum_working_hours == metadata.sum_working_hours.v
        completion_rate == IF planned_sp > 0 THEN Div(actual_sp, planned_sp) ELSE Zero
        effort_estimation_accuracy ==
            IF actual_dev_effort > 0 THEN Div(estimated_dev_effort, actual_dev_effort) ELSE Zero
        utilization_rate ==
            IF sum_working_hours > 0 THEN Div(sum_actual_hours, sum_working_hours) ELSE Zero
    IN  [completion_rate |-> completion_rate,
         completion_rate_analysis |-> completion_rate_analysis(completion_rate),
         effort_estimation_accuracy |-> effort_estimation_accuracy,
         effort_estimation_analysis |-> effort_estimation_analysis(effort_estimation_accuracy),
         bug_fixing_effort_pct |->
            IF actual_dev_effort > 0 THEN Div(bug_fixing_effort, actual_dev_effort) ELSE Zero,
         utilization_rate |-> utilization_rate,
         cmmi_productivity |->
            IF RatLess(Zero, utilization_rate)
            THEN RatDiv(Int2Rat(actual_sp), utilization_rate)
            ELSE Zero,
         sprint_name |-> metadata.sprint_name,
         date_from |-> metadata.date_from,
         date_to |-> metadata.date_to]

----------------------------------------------------------------------------
(* SprintCalculator: the validation of a metric table *)

\* row.get('staff_name', row.get('team'))
RowLabel(row) == IF "staff_name" \in DOMAIN row THEN row.staff_name ELSE row.team

UtilizationLimit == Norm(3, 2)

PerformanceRateLimit == Norm(1, 2)

KpiLowerLimit == Norm(3, 10)

KpiUpperLimit == Norm(3, 2)

\* Variant of HighUtilization: the limit itself is flagged.
HighUtilizationInclusive(metrics) ==
    SelectSeq(metrics, LAMBDA row : RatLeq(UtilizationLimit, row.utilization))

\* metrics[metrics['utilization'] > 1.5]
HighUtilization(metrics) ==
    SelectSeq(metrics, LAMBDA row : RatLess(UtilizationLimit, row.utilization))

\* metrics[metrics['performance_rate'] < 0.5]
LowPerformance(metrics) ==
    SelectSeq(metrics, LAMBDA row : RatLess(row.performance_rate, PerformanceRateLimit))

\* Variant of KpiOutliers: the ends of the interval are flagged.
KpiOutliersOpenInterval(metrics) ==
    SelectSeq(metrics, LAMBDA row :
        RatLeq(row.kpi, KpiLowerLimit) \/ RatLeq(KpiUpperLimit, row.kpi))

\* metrics[(metrics['kpi'] < 0.3) | (metrics['kpi'] > 1.5)]
KpiOutliers(metrics) ==
    SelectSeq(metrics, LAMBDA row :
        RatLess(row.kpi, KpiLowerLimit) \/ RatLess(KpiUpperLimit, row.kpi))

\* Variant of MetricsStatus: a table with warnings is an error.
MetricsStatusError(warnings) == IF warnings /= <<>> THEN "error" ELSE "success"

\* 'warning' if warnings else 'success'
MetricsStatus(warnings) == IF warnings /= <<>> THEN "warning" ELSE "success"

\* validate_metrics raises a KeyError when it indexes the frame of an empty
\* list of results, which has no column.
ValidateMetricsRaises(metrics) == metrics = <<>>

validate_metrics(metrics) ==
    LET high_util == HighUtilization(metrics)
        low_perf == LowPerformance(metrics)
        kpi_outliers == KpiOutliers(metrics)
        warnings ==
            [i \in 1..Len(high_util) |->
                [type |-> "high_utilization", staff |-> RowLabel(high_util[i]),
                 value |-> high_util[i].utilization]]
            \o [i \in 1..Len(low_perf) |->
                [type |-> "low_performance_rate", staff |-> RowLabel(low_perf[i]),
                 value |-> low_perf[i].performance_rate]]
            \o [i \in 1..Len(kpi_outliers) |->
                [type |-> "kpi_outlier", staff |-> RowLabel(kpi_outliers[i]),
                 value |-> kpi_outliers[i].kpi]]
    IN  [status |-> MetricsStatus(warnings), warnings |-> warnings]

----------------------------------------------------------------------------
(* Bounds and input sets *)

\* Largest absolute value of an argument of a ratio operation.
MaxQty == 2

\* Largest number of rows of the raw table.
MaxRows == 2

\* Largest number of entries of a capacity table given to the calculator.
MaxCapRows == 2

\* Largest length of an 'Assigned To' string given to the identity parsing.
MaxLen == 5

\* Largest number of calls of append_to_historical_staff on one workbook
MaxCalls == 2

\* All sequences over S of length at most n.
RECURSIVE SeqsUpTo(_, _)
SeqsUpTo(S, n) ==
    IF n = 0 THEN {<<>>}
    ELSE LET shorter == SeqsUpTo(S, n - 1)
         IN  shorter \cup {Append(s, x) : s \in {t \in shorter : Len(t) = n - 1}, x \in S}

NoCall == [op |-> "none", args |-> <<>>, ret |-> Zero]

NoReport == [status |-> "none", errors |-> <<>>, warnings |-> <<>>]

NoTable == [columns |-> {}, rows |-> <<>>]

AllColumns ==
    {"Work Item Type", "Title", "State", "Assigned To", "Original Estimate",
     "Completed Work", "Remaining Work", "Story Points", "Activity", "Tags"}

\* Python's None in a place of the returned tuple, and a value in such a place.
NoneValue == [some |-> FALSE]

Some(v) == [some |-> TRUE, value |-> v]

\* The tuple process_sprint_file returns.
ReturnValue(processed_data, report, staff, team, cmmi) ==
    [returned |-> TRUE, processed_data |-> processed_data, validation |-> report,
     staff_metrics |-> staff, team_metrics |-> team, cmmi_measures |-> cmmi]

\* The invocation has not returned.
NoResult ==
    [returned |-> FALSE, processed_data |-> NoneValue, validation |-> NoneValue,
     staff_metrics |-> NoneValue, team_metrics |-> NoneValue, cmmi_measures |-> NoneValue]

\* return None, None, None, None, None
AllNone == ReturnValue(NoneValue, NoneValue, NoneValue, NoneValue, NoneValue)

NoMeasures ==
    [completion_rate |-> Zero, completion_rate_analysis |-> "none",
     effort_estimation_accuracy |-> Zero, effort_estimation_analysis |-> "none",
     bug_fixing_effort_pct |-> Zero, utilization_rate |-> Zero,
     cmmi_productivity |-> Zero, sprint_name |-> "none", date_from |-> "none",
     date_to |-> "none"]

\* The workbook as uploaded: none of the result sheets written, nothing saved.
NoWorkbook == [sheets |-> {}, saved |-> FALSE]

\* No file temp_sprint.xlsx in the working directory.
NoFile == [exists |-> FALSE]

\* The file temp_sprint.xlsx holding the bytes of an upload and the result
\* sheets that were saved into it, named by the uploads whose metrics they show.
FileOf(upload, analysed) == [exists |-> TRUE, upload |-> upload, analysed |-> analysed]

NoMetricsReport == [status |-> "none", warnings |-> <<>>]

\* The metadata cells the calculator reads, all numbers.
Metadata(planned_sp, actual_sp, estimated_dev_effort, actual_dev_effort, bug_fixing_effort, sum_actual_hours, sum_working_hours) ==
    [sprint_name |-> "Sprint 1", date_from |-> "2024-01-01", date_to |-> "2024-01-14",
     planned_sp |-> NumCell(planned_sp), actual_sp |-> NumCell(actual_sp),
     estimated_dev_effort |-> NumCell(estimated_dev_effort),
     actual_dev_effort |-> NumCell(actual_dev_effort),
     bug_fixing_effort |-> NumCell(bug_fixing_effort),
     sum_actual_hours |-> NumCell(sum_actual_hours),
     sum_working_hours |-> NumCell(sum_working_hours)]

\* A sprint that completed 9 of 10 story points.
SampleMetadata == Metadata(10, 9, 12, 10, 3, 8, 10)

----------------------------------------------------------------------------
(* The ratio operations called on their own *)

QtyRange == (0 - MaxQty)..MaxQty

InitRatio ==
    /\ pc = "ratio"
    /\ call = NoCall
    /\ init_arg = NoneArg
    /\ kpi_weights = DefaultWeights
    /\ columns = AllColumns
    /\ df = <<>>
    /\ azure_data = <<>>
    /\ validation = NoReport
    /\ capacity_sheet = <<>>
    /\ capacity_data = NoTable
    /\ staff_agg = <<>>
    /\ team_agg = <<>>
    /\ staff_metrics = <<>>
    /\ team_metrics = <<>>
    /\ sprint_metadata = SampleMetadata
    /\ cmmi_measures = NoMeasures
    /\ workbook = NoWorkbook
    /\ temp_file = NoFile
    /\ database_ids = {}
    /\ requests = <<>>
    /\ result = NoResult
    /\ exception = NoException
    /\ metrics_validation = NoMetricsReport

RatioFrame ==
    UNCHANGED <<pc, init_arg, kpi_weights, columns, df, azure_data, validation,
                capacity_sheet, capacity_data, staff_agg, team_agg,
                staff_metrics, team_metrics, sprint_metadata, cmmi_measures, workbook, temp_file, database_ids, requests,
                result, exception, metrics_validation>>

CallPerformanceRate ==
    /\ pc = "ratio"
    /\ \E oe \in QtyRange, cw \in QtyRange, rw \in QtyRange :
        call' = [op |-> "calculate_performance_rate", args |-> <<oe, cw, rw>>,
                 ret |-> calculate_performance_rate(oe, cw, rw)]
    /\ RatioFrame

CallUtilization ==
    /\ pc = "ratio"
    /\ \E cw \in QtyRange, capacity \in QtyRange :
        call' = [op |-> "calculate_utilization", args |-> <<cw, capacity>>,
                 ret |-> calculate_utilization(cw, capacity)]
    /\ RatioFrame

CallDoneTasksPercentage ==
    /\ pc = "ratio"
    /\ \E done \in QtyRange, total \in QtyRange :
        call' = [op |-> "calculate_done_tasks_percentage", args |-> <<done, total>>,
                 ret |-> calculate_done_tasks_percentage(done, total)]
    /\ RatioFrame

CallMidsprintAdditionPercentage ==
    /\ pc = "ratio"
    /\ \E work \in QtyRange, total \in QtyRange :
        call' = [op |-> "calculate_midsprint_addition_percentage", args |-> <<work, total>>,
                 ret |-> calculate_midsprint_addition_percentage(work, total)]
    /\ RatioFrame

CallAdhocPercentage ==
    /\ pc = "ratio"
    /\ \E work \in QtyRange, total \in QtyRange :
        call' = [op |-> "calculate_adhoc_percentage", args |-> <<work, total>>,
                 ret |-> calculate_adhoc_percentage(work, total)]
    /\ RatioFrame

NextRatio ==
    \/ CallPerformanceRate
    \/ CallUtilization
    \/ CallDoneTasksPercentage
    \/ CallMidsprintAdditionPercentage
    \/ CallAdhocPercentage

SpecRatio == InitRatio /\ [][NextRatio]_vars

\* The denominator of the last call.
CallDenominator ==
    IF call.op = "calculate_performance_rate" THEN call.args[2] + call.args[3]
    ELSE call.args[2]

\* C1: each of the five ratio operations returns exactly 0 (and no division
\* error) when its denominator is exactly zero, whatever the numerator.
C1_ZeroDenominatorGivesZero ==
    (call.op /= "none" /\ CallDenominator = 0) => call.ret = Zero

\* A call of calculate_performance_rate with a non-zero estimate and completed
\* and remaining work that cancel to zero.
C1_Witness ==
    /\ call.op = "calculate_performance_rate"
    /\ call.args[1] /= 0 /\ call.args[2] /= 0
    /\ call.args[2] + call.args[3] = 0
    /\ call.ret = Zero

----------------------------------------------------------------------------
(* process_sprint_file: from the raw rows to the metric tables *)

A_x == <<"a", " ", "<", "x", ">">>

B_y == <<"b", "<", "y", ">">>

AssignedToValues == {NaN, A_x, B_y}

ActivityValues == {"Development", "Front End", "Ops"}

\* Tags, State and the three work quantities of a row.
WorkProfiles ==
    {[Tags |-> LowerStr(MidSprintMarker), State |-> "Done",
      Original_Estimate |-> NumCell(1), Completed_Work |-> NumCell(2),
      Remaining_Work |-> NumCell(0)],
     [Tags |-> NaN, State |-> "Closed",
      Original_Estimate |-> TextCell(<<"x">>), Completed_Work |-> NaNCell,
      Remaining_Work |-> NumCell(0)],
     [Tags |-> <<"Q", ";", "a", "d", "-", "H", "O", "C">>, State |-> "Active",
      Original_Estimate |-> NumCell(0 - 1), Completed_Work |-> NumCell(1),
      Remaining_Work |-> TextCell(<<"1">>)]}

RawRows ==
    {[Assigned_To |-> a, Activity |-> act] @@ w :
        a \in AssignedToValues, act \in ActivityValues, w \in WorkProfiles}

RawTables == SeqsUpTo(RawRows, MaxRows)

CapEntry(member, team, remaining) ==
    [staff_member |-> member, team |-> team, remaining_capacity |-> remaining]

\* Capacity sheets: without a member, with one, and with an empty row among three.
PipelineSheets ==
    {<<>>,
     <<CapEntry(A_x, "Development", 4)>>,
     <<CapEntry(A_x, "Development", 4), CapEntry(NaN, NA, 0),
       CapEntry(B_y, "Frontend", 1), CapEntry(<<"c">>, "Development", 0 - 4)>>}

\* Tables with a padded column name or without one of the columns.
OtherColumns ==
    {(AllColumns \ {"Title"}) \cup {"Title "},
     AllColumns \ {"Title"},
     AllColumns \ {"Tags"},
     AllColumns \ {"Completed Work"},
     AllColumns \ {"Remaining Work"},
     AllColumns \ {"Assigned To"},
     AllColumns \ {"Work Item Type", "Original Estimate"}}

\* Metadata cells: all filled in, and with the planned story points left empty.
PipelineMetadata ==
    {SampleMetadata, [SampleMetadata EXCEPT !.planned_sp = EmptyCell]}

Init ==
    /\ pc = "uploaded"
    /\ call = NoCall
    /\ init_arg = NoneArg
    /\ kpi_weights = InitWeights(NoneArg)
    /\ \/ /\ columns = AllColumns
          /\ df \in RawTables
          /\ capacity_sheet \in PipelineSheets
          /\ sprint_metadata = SampleMetadata
       \/ /\ columns \in OtherColumns
          /\ df \in SeqsUpTo({[Assigned_To |-> A_x, Activity |-> "Development"] @@ w :
                                 w \in WorkProfiles}, 1)
          /\ capacity_sheet = <<CapEntry(A_x, "Development", 4)>>
          /\ sprint_metadata \in PipelineMetadata
    /\ azure_data = <<>>
    /\ validation = NoReport
    /\ capacity_data = NoTable
    /\ staff_agg = <<>>
    /\ team_agg = <<>>
    /\ staff_metrics = <<>>
    /\ team_metrics = <<>>
    /\ cmmi_measures = NoMeasures
    /\ workbook = NoWorkbook
    /\ temp_file = FileOf("upload", {})
    /\ database_ids = {}
    /\ requests = <<>>
    /\ result = NoResult
    /\ exception = NoException
    /\ metrics_validation = NoMetricsReport

\* The except clause of process_sprint_file: the error is shown and five None
\* are returned.
Raise(e) ==
    /\ pc' = "raised"
    /\ exception' = e
    /\ result' = AllNone

\* azure_data = processor.process_azure_data(df_azure)
ProcessAzureData ==
    /\ pc = "uploaded"
    /\ IF ProcessRaises(columns, df)
       THEN /\ Raise(ProcessException(columns, df))
            /\ UNCHANGED <<columns, azure_data>>
       ELSE /\ pc' = "processed"
            /\ columns' = StripColumns(columns)
            /\ azure_data' = process_azure_data(columns, df)
            /\ UNCHANGED <<result, exception>>
    /\ UNCHANGED <<call, init_arg, kpi_weights, df, validation, capacity_sheet,
                   capacity_data, staff_agg, team_agg, staff_metrics, team_metrics,
                   sprint_metadata, cmmi_measures, workbook, temp_file, database_ids, requests, metrics_validation>>

\* Variant of IsFatal: no report stops the invocation.
IsFatalNever(report) == report.status = "fatal"

\* if validation['status'] == 'error'
IsFatal(report) == report.status = "error"

\* validation = processor.validate_data(azure_data), and the return on 'error'
ValidateData ==
    /\ pc = "processed"
    /\ IF ValidateRaises(columns)
       THEN /\ Raise(Raised("KeyError", "validate_data"))
            /\ UNCHANGED validation
       ELSE /\ validation' = validate_data(columns, azure_data)
            /\ IF IsFatal(validation')
               THEN /\ pc' = "returned_error"
                    /\ result' = ReturnValue(NoneValue, Some(validation'), NoneValue,
                                             NoneValue, NoneValue)
               ELSE /\ pc' = "validated"
                    /\ UNCHANGED result
            /\ UNCHANGED exception
    /\ UNCHANGED <<call, init_arg, kpi_weights, columns, df, azure_data, capacity_sheet,
                   capacity_data, staff_agg, team_agg, staff_metrics, team_metrics,
                   sprint_metadata, cmmi_measures, workbook, temp_file, database_ids, requests, metrics_validation>>

\* capacity_data = processor.get_capacity_data(wb['Capacity'])
GetCapacityData ==
    /\ pc = "validated"
    /\ capacity_data' = get_capacity_data(capacity_sheet)
    /\ pc' = "capacity"
    /\ UNCHANGED <<call, init_arg, kpi_weights, columns, df, azure_data, validation,
                   capacity_sheet, staff_agg, team_agg, staff_metrics, team_metrics,
                   sprint_metadata, cmmi_measures, workbook, temp_file, database_ids, requests, result, exception,
                   metrics_validation>>

\* staff_agg = processor.aggregate_by_staff(azure_data)
AggregateByStaff ==
    /\ pc = "capacity"
    /\ IF AggregateRaises(columns)
       THEN /\ Raise(Raised("KeyError", "aggregate_by_staff"))
            /\ UNCHANGED staff_agg
       ELSE /\ staff_agg' = aggregate_by_staff(azure_data)
            /\ pc' = "staff_agg"
            /\ UNCHANGED <<result, exception>>
    /\ UNCHANGED <<call, init_arg, kpi_weights, columns, df, azure_data, validation,
                   capacity_sheet, capacity_data, team_agg, staff_metrics, team_metrics,
                   sprint_metadata, cmmi_measures, workbook, temp_file, database_ids, requests, metrics_validation>>

\* team_agg = processor.aggregate_by_team(azure_data)
AggregateByTeam ==
    /\ pc = "staff_agg"
    /\ team_agg' = aggregate_by_team(azure_data)
    /\ pc' = "team_agg"
    /\ UNCHANGED <<call, init_arg, kpi_weights, columns, df, azure_data, validation,
                   capacity_sheet, capacity_data, staff_agg, staff_metrics, team_metrics,
                   sprint_metadata, cmmi_measures, workbook, temp_file, database_ids, requests, result, exception,
                   metrics_validation>>

\* staff_metrics = calculator.calculate_staff_metrics(staff_agg, capacity_data, azure_data)
CalculateStaffMetrics ==
    /\ pc = "team_agg"
    /\ IF StaffMetricsRaises(staff_agg, capacity_data)
       THEN /\ Raise(Raised("KeyError", "calculate_staff_metrics"))
            /\ UNCHANGED staff_metrics
       ELSE /\ staff_metrics' =
                   calculate_staff_metrics(kpi_weights, staff_agg, capacity_data, azure_data)
            /\ pc' = "staff_metrics"
            /\ UNCHANGED <<result, exception>>
    /\ UNCHANGED <<call, init_arg, kpi_weights, columns, df, azure_data, validation,
                   capacity_sheet, capacity_data, staff_agg, team_agg, team_metrics,
                   sprint_metadata, cmmi_measures, workbook, temp_file, database_ids, requests, metrics_validation>>

\* team_metrics = calculator.calculate_team_metrics(team_agg, capacity_data, azure_data)
CalculateTeamMetrics ==
    /\ pc = "staff_metrics"
    /\ IF TeamMetricsRaises(team_agg, capacity_data)
       THEN /\ Raise(Raised("KeyError", "calculate_team_metrics"))
            /\ UNCHANGED team_metrics
       ELSE /\ team_metrics' =
                   calculate_team_metrics(kpi_weights, team_agg, capacity_data, azure_data)
            /\ pc' = "team_metrics"
            /\ UNCHANGED <<result, exception>>
    /\ UNCHANGED <<call, init_arg, kpi_weights, columns, df, azure_data, validation,
                   capacity_sheet, capacity_data, staff_agg, team_agg, staff_metrics,
                   sprint_metadata, cmmi_measures, workbook, temp_file, database_ids, requests, metrics_validation>>

\* cmmi_measures = calculator.calculate_cmmi_measures(sprint_metadata, azure_data)
CalculateCmmiMeasures ==
    /\ pc = "team_metrics"
    /\ IF CmmiRaises(sprint_metadata)
       THEN /\ Raise(Raised("TypeError", "calculate_cmmi_measures"))
            /\ UNCHANGED cmmi_measures
       ELSE /\ cmmi_measures' = calculate_cmmi_measures(sprint_metadata)
            /\ pc' = "cmmi"
            /\ UNCHANGED <<result, exception>>
    /\ UNCHANGED <<call, init_arg, kpi_weights, columns, df, azure_data, validation,
                   capacity_sheet, capacity_data, staff_agg, team_agg, staff_metrics,
                   team_metrics, sprint_metadata, workbook, temp_file, database_ids, requests, metrics_validation>>

\* The sheets the five calls on the ExcelUpdater create or fill.
UpdatedSheets ==
    {"Analysis", "Kpi Indicators", "Kpi Indicators Per Staff", "Kpi Indicators Per Team",
     "CMMI Template"}

\* updater = ExcelUpdater(temp_path) and the five updates of its workbook
UpdateSheets ==
    /\ pc = "cmmi"
    /\ workbook' = [sheets |-> UpdatedSheets, saved |-> FALSE]
    /\ pc' = "updated"
    /\ UNCHANGED <<call, init_arg, kpi_weights, columns, df, azure_data, validation,
                   capacity_sheet, capacity_data, staff_agg, team_agg, staff_metrics,
                   team_metrics, sprint_metadata, cmmi_measures, temp_file, database_ids, requests, result,
                   exception, metrics_validation>>

\* updater.save()
SaveWorkbook ==
    /\ pc = "updated"
    /\ workbook' = [workbook EXCEPT !.saved = TRUE]
    /\ pc' = "saved"
    /\ UNCHANGED <<call, init_arg, kpi_weights, columns, df, azure_data, validation,
                   capacity_sheet, capacity_data, staff_agg, team_agg, staff_metrics,
                   team_metrics, sprint_metadata, cmmi_measures, temp_file, database_ids, requests, result,
                   exception, metrics_validation>>

\* processed_data = f.read(), and the return of the five results
ReturnProcessed ==
    /\ pc = "saved"
    /\ result' = ReturnValue(Some(workbook.sheets), Some(validation), Some(staff_metrics),
                             Some(team_metrics), Some(cmmi_measures))
    /\ pc' = "returned"
    /\ UNCHANGED <<call, init_arg, kpi_weights, columns, df, azure_data, validation,
                   capacity_sheet, capacity_data, staff_agg, team_agg, staff_metrics,
                   team_metrics, sprint_metadata, cmmi_measures, workbook, temp_file, database_ids, requests, exception,
                   metrics_validation>>

Next ==
    \/ ProcessAzureData
    \/ ValidateData
    \/ GetCapacityData
    \/ AggregateByStaff
    \/ AggregateByTeam
    \/ CalculateStaffMetrics
    \/ CalculateTeamMetrics
    \/ CalculateCmmiMeasures
    \/ UpdateSheets
    \/ SaveWorkbook
    \/ ReturnProcessed

Spec == Init /\ [][Next]_vars

----------------------------------------------------------------------------
(* The calculator called on given aggregates *)

AhmedName == <<"A", "h", "m", "e", "d", " ", "T", "a", "l", "a", "a", "t">>

AhmedEmail ==
    <<"a", "t", "a", "l", "a", "a", "t", "@", "y", "o", "u", "x", "e", "l", ".", "c", "o", "m">>

CalcIdentities == {<<AhmedEmail, AhmedName>>, <<(<<"x">>), (<<"a">>)>>}

\* One staff aggregate, as in main() of calculator.py, and variations of it.
CalcStaffGroups ==
    {[staff_email |-> id[1], staff_name |-> id[2], team |-> "Development",
      original_estimate_total |-> oe, completed_work_total |-> cw,
      remaining_work_total |-> rw, done_count |-> cnt[1], total_count |-> cnt[2],
      midsprint_count |-> 0, adhoc_count |-> 1] :
        id \in CalcIdentities, oe \in {0, 89}, cw \in {0, 64}, rw \in {0, 1},
        cnt \in {<<10, 10>>, <<1, 2>>, <<0, 0>>}}

\* The team aggregate of one staff aggregate.
TeamGroupOf(g) ==
    [team |-> g.team,
     original_estimate_total |-> g.original_estimate_total,
     completed_work_total |-> g.completed_work_total,
     remaining_work_total |-> g.remaining_work_total,
     done_count |-> g.done_count, total_count |-> g.total_count,
     midsprint_count |-> g.midsprint_count, adhoc_count |-> g.adhoc_count]

\* The item table of main(): one item of the staff member, ad-hoc.
ItemOf(g) ==
    [staff_email |-> g.staff_email, Completed_Work |-> g.completed_work_total,
     has_midsprint_addition |-> FALSE, has_adhoc |-> TRUE, team |-> g.team]

CalcEntries ==
    {CapEntry(IdentityString(AhmedName, AhmedEmail), "Development", 63),
     CapEntry(IdentityString(AhmedName, AhmedEmail), "Development", 40),
     CapEntry(A_x, "Development", 0),
     CapEntry(<<"c">>, "Design", 40)}

\* Capacity tables: the frame without columns, and frames of up to MaxCapRows entries.
CalcTables ==
    {NoTable} \cup {[columns |-> CapacityColumns, rows |-> r] : r \in SeqsUpTo(CalcEntries, MaxCapRows)}

\* Arguments of the constructor.
WeightArgs ==
    {NoneArg, EmptyDict,
     DictArg([performance_rate |-> Norm(1, 2), utilization |-> Norm(1, 2), done_tasks |-> Zero]),
     DictArg([performance_rate |-> Norm(3, 10), utilization |-> Norm(3, 10),
              done_tasks |-> Norm(3, 10)])}

InitCalc ==
    /\ pc = "team_agg"
    /\ call = NoCall
    /\ init_arg \in WeightArgs
    /\ kpi_weights = InitWeights(init_arg)
    /\ columns = AllColumns
    /\ df = <<>>
    /\ validation = NoReport
    /\ capacity_sheet = <<>>
    /\ capacity_data \in CalcTables
    /\ \/ staff_agg = <<>> /\ team_agg = <<>> /\ azure_data = <<>>
       \/ \E g \in CalcStaffGroups :
            /\ staff_agg = <<g>>
            /\ team_agg = <<TeamGroupOf(g)>>
            /\ azure_data = <<ItemOf(g)>>
    /\ staff_metrics = <<>>
    /\ team_metrics = <<>>
    /\ sprint_metadata = SampleMetadata
    /\ cmmi_measures = NoMeasures
    /\ workbook = NoWorkbook
    /\ temp_file = NoFile
    /\ database_ids = {}
    /\ requests = <<>>
    /\ result = NoResult
    /\ exception = NoException
    /\ metrics_validation = NoMetricsReport

NextCalc ==
    \/ CalculateStaffMetrics
    \/ CalculateTeamMetrics

SpecCalc == InitCalc /\ [][NextCalc]_vars

----------------------------------------------------------------------------
(* validate_metrics called on given metric tables *)

\* Utilizations just below, at and just above the limit.
Utilizations == {Norm(149, 100), Norm(3, 2), Norm(151, 100)}

\* Performance rate and KPI of a row: at and around their limits.
RateAndKpi ==
    {<<Norm(49, 100), Norm(29, 100)>>, <<Norm(1, 2), Norm(3, 10)>>,
     <<Norm(1, 2), Norm(3, 2)>>, <<Norm(1, 2), Norm(151, 100)>>,
     <<Norm(49, 100), Norm(3, 2)>>}

StaffMetricRows ==
    {[staff_name |-> name, team |-> "Development", utilization |-> u,
      performance_rate |-> rk[1], kpi |-> rk[2]] :
        name \in {<<"a">>, <<"b">>}, u \in Utilizations, rk \in RateAndKpi}

TeamMetricRows ==
    {[team |-> team, utilization |-> u, performance_rate |-> rk[1], kpi |-> rk[2]] :
        team \in {"Development", "Design"}, u \in Utilizations, rk \in RateAndKpi}

InitMetrics ==
    /\ pc = "metrics"
    /\ call = NoCall
    /\ init_arg = NoneArg
    /\ kpi_weights = InitWeights(NoneArg)
    /\ columns = AllColumns
    /\ df = <<>>
    /\ azure_data = <<>>
    /\ validation = NoReport
    /\ capacity_sheet = <<>>
    /\ capacity_data = NoTable
    /\ staff_agg = <<>>
    /\ team_agg = <<>>
    /\ \/ staff_metrics \in SeqsUpTo(StaffMetricRows, MaxRows) /\ team_metrics = <<>>
       \/ staff_metrics = <<>> /\ team_metrics \in SeqsUpTo(TeamMetricRows, MaxRows)
    /\ sprint_metadata = SampleMetadata
    /\ cmmi_measures = NoMeasures
    /\ workbook = NoWorkbook
    /\ temp_file = NoFile
    /\ database_ids = {}
    /\ requests = <<>>
    /\ result = NoResult
    /\ exception = NoException
    /\ metrics_validation = NoMetricsReport

MetricsFrame ==
    UNCHANGED <<call, init_arg, kpi_weights, columns, df, azure_data, validation,
                capacity_sheet, capacity_data, staff_agg, team_agg, staff_metrics,
                team_metrics, sprint_metadata, cmmi_measures, workbook, temp_file, database_ids, requests, result>>

\* validation = calculator.validate_metrics(staff_metrics)
ValidateStaffMetrics ==
    /\ pc = "metrics"
    /\ IF ValidateMetricsRaises(staff_metrics)
       THEN /\ pc' = "raised"
            /\ exception' = Raised("KeyError", "validate_metrics")
            /\ UNCHANGED metrics_validation
       ELSE /\ pc' = "staff_validated"
            /\ metrics_validation' = validate_metrics(staff_metrics)
            /\ UNCHANGED exception
    /\ MetricsFrame

\* validate_metrics on the table of calculate_team_metrics
ValidateTeamMetrics ==
    /\ pc = "metrics"
    /\ IF ValidateMetricsRaises(team_metrics)
       THEN /\ pc' = "raised"
            /\ exception' = Raised("KeyError", "validate_metrics")
            /\ UNCHANGED metrics_validation
       ELSE /\ pc' = "team_validated"
            /\ metrics_validation' = validate_metrics(team_metrics)
            /\ UNCHANGED exception
    /\ MetricsFrame

NextMetrics ==
    \/ ValidateStaffMetrics
    \/ ValidateTeamMetrics

SpecMetrics == InitMetrics /\ [][NextMetrics]_vars

----------------------------------------------------------------------------
(* calculate_cmmi_measures called on given metadata *)

CmmiMetadata ==
    {Metadata(planned_sp, actual_sp, estimated, actual_dev_effort, 3, hours, working_hours) :
        planned_sp \in {0 - 10, 0, 10}, actual_sp \in {0, 8, 9},
        estimated \in {8, 9, 12, 13}, actual_dev_effort \in {0, 10},
        hours \in {0 - 8, 0, 8}, working_hours \in {0, 10}}

InitCmmi ==
    /\ pc = "team_metrics"
    /\ call = NoCall
    /\ init_arg = NoneArg
    /\ kpi_weights = InitWeights(NoneArg)
    /\ columns = AllColumns
    /\ df = <<>>
    /\ azure_data = <<>>
    /\ validation = NoReport
    /\ capacity_sheet = <<>>
    /\ capacity_data = NoTable
    /\ staff_agg = <<>>
    /\ team_agg = <<>>
    /\ staff_metrics = <<>>
    /\ team_metrics = <<>>
    /\ sprint_metadata \in CmmiMetadata \cup PipelineMetadata
    /\ cmmi_measures = NoMeasures
    /\ workbook = NoWorkbook
    /\ temp_file = NoFile
    /\ database_ids = {}
    /\ requests = <<>>
    /\ result = NoResult
    /\ exception = NoException
    /\ metrics_validation = NoMetricsReport

NextCmmi == CalculateCmmiMeasures

SpecCmmi == InitCmmi /\ [][NextCmmi]_vars

----------------------------------------------------------------------------
(* The identity parsing of process_azure_data on given 'Assigned To' strings *)

ParseAlphabet == {"a", " ", "<", ">"}

AssignedToStrings == {NaN} \cup SeqsUpTo(ParseAlphabet, MaxLen)

InitParse ==
    /\ pc = "parse"
    /\ \E s \in AssignedToStrings : call = [op |-> "none", args |-> <<s>>, ret |-> Zero]
    /\ init_arg = NoneArg
    /\ kpi_weights = InitWeights(NoneArg)
    /\ columns = AllColumns
    /\ df = <<>>
    /\ azure_data = <<>>
    /\ validation = NoReport
    /\ capacity_sheet = <<>>
    /\ capacity_data = NoTable
    /\ staff_agg = <<>>
    /\ team_agg = <<>>
    /\ staff_metrics = <<>>
    /\ team_metrics = <<>>
    /\ sprint_metadata = SampleMetadata
    /\ cmmi_measures = NoMeasures
    /\ workbook = NoWorkbook
    /\ temp_file = NoFile
    /\ database_ids = {}
    /\ requests = <<>>
    /\ result = NoResult
    /\ exception = NoException
    /\ metrics_validation = NoMetricsReport

\* df['staff_email'] = ...extract(r'<(.+?)>')[0]; df['staff_name'] = ...extract(r'^(.+?)\s*<')[0]
ExtractIdentity ==
    /\ pc = "parse"
    /\ call' = [op |-> "extract", args |-> call.args,
                ret |-> [staff_name |-> ExtractName(call.args[1]),
                         staff_email |-> ExtractEmail(call.args[1])]]
    /\ pc' = "parsed"
    /\ UNCHANGED <<init_arg, kpi_weights, columns, df, azure_data, validation,
                   capacity_sheet, capacity_data, staff_agg, team_agg, staff_metrics,
                   team_metrics, sprint_metadata, cmmi_measures, workbook, temp_file, database_ids, requests, result,
                   exception, metrics_validation>>

NextParse == ExtractIdentity

SpecParse == InitParse /\ [][NextParse]_vars

----------------------------------------------------------------------------
(* process_azure_data and validate_data on rows of many activities and states *)

ValidatedActivities == {"Development", "Front End", "Ops", "QA", NA}

ValidatedStates == {"Done", "Closed", "Active", "done", NA}

ValidatedRows ==
    {[Assigned_To |-> A_x, Activity |-> act, Tags |-> NaN, State |-> st,
      Original_Estimate |-> NumCell(1), Completed_Work |-> NumCell(cw),
      Remaining_Work |-> NumCell(0)] :
        act \in ValidatedActivities, st \in ValidatedStates, cw \in {0, 1}}

InitValidate ==
    /\ pc = "uploaded"
    /\ call = NoCall
    /\ init_arg = NoneArg
    /\ kpi_weights = InitWeights(NoneArg)
    /\ columns = AllColumns
    /\ df \in SeqsUpTo(ValidatedRows, MaxRows)
    /\ azure_data = <<>>
    /\ validation = NoReport
    /\ capacity_sheet = <<>>
    /\ capacity_data = NoTable
    /\ staff_agg = <<>>
    /\ team_agg = <<>>
    /\ staff_metrics = <<>>
    /\ team_metrics = <<>>
    /\ sprint_metadata = SampleMetadata
    /\ cmmi_measures = NoMeasures
    /\ workbook = NoWorkbook
    /\ temp_file = NoFile
    /\ database_ids = {}
    /\ requests = <<>>
    /\ result = NoResult
    /\ exception = NoException
    /\ metrics_validation = NoMetricsReport

NextValidate ==
    \/ ProcessAzureData
    \/ ValidateData

SpecValidate == InitValidate /\ [][NextValidate]_vars

----------------------------------------------------------------------------
(* The metric engine called any number of times on the same inputs *)

\* Variant of WeightsAfterCall: a call leaves the default weights behind.
WeightsAfterCallReset(weights) == DefaultWeights

\* self.kpi_weights after a call of a method of the calculator: only __init__
\* assigns it.
WeightsAfterCall(weights) == weights

EngineGroups ==
    {g \in CalcStaffGroups : g.original_estimate_total = 89 /\ g.completed_work_total = 64}

EngineTables == {t \in CalcTables : Len(t.rows) <= 1}

InitEngine ==
    /\ pc = "engine"
    /\ call = [op |-> "none", args |-> <<0>>, ret |-> <<>>]
    /\ init_arg \in WeightArgs
    /\ kpi_weights = InitWeights(init_arg)
    /\ columns = AllColumns
    /\ df = <<>>
    /\ validation = NoReport
    /\ capacity_sheet = <<>>
    /\ capacity_data \in EngineTables
    /\ \/ staff_agg = <<>> /\ team_agg = <<>> /\ azure_data = <<>>
       \/ \E g \in EngineGroups :
            /\ staff_agg = <<g>>
            /\ team_agg = <<TeamGroupOf(g)>>
            /\ azure_data = <<ItemOf(g)>>
    /\ staff_metrics = <<>>
    /\ team_metrics = <<>>
    /\ sprint_metadata \in PipelineMetadata
    /\ cmmi_measures = NoMeasures
    /\ workbook = NoWorkbook
    /\ temp_file = NoFile
    /\ database_ids = {}
    /\ requests = <<>>
    /\ result = NoResult
    /\ exception = NoException
    /\ metrics_validation = NoMetricsReport

\* The record of a call: the method, how many times in a row it has been
\* called (counted up to 2), and what the first call of the row gave.
Called(op, outcome) ==
    IF call.op = op
    THEN [op |-> op, args |-> <<2>>, ret |-> call.ret]
    ELSE [op |-> op, args |-> <<1>>, ret |-> outcome]

EngineFrame == UNCHANGED <<pc, init_arg, columns, df, validation, capacity_sheet, workbook, temp_file, database_ids, requests, result>>

\* calculator.calculate_staff_metrics(staff_agg, capacity_data, azure_data)
CallStaffMetrics ==
    /\ pc = "engine"
    /\ IF StaffMetricsRaises(staff_agg, capacity_data)
       THEN /\ exception' = Raised("KeyError", "calculate_staff_metrics")
            /\ UNCHANGED staff_metrics
       ELSE /\ exception' = NoException
            /\ staff_metrics' =
                   calculate_staff_metrics(kpi_weights, staff_agg, capacity_data, azure_data)
    /\ call' = Called("calculate_staff_metrics", <<exception', staff_metrics'>>)
    /\ kpi_weights' = WeightsAfterCall(kpi_weights)
    /\ UNCHANGED <<staff_agg, team_agg, capacity_data, azure_data, sprint_metadata,
                   team_metrics, cmmi_measures, metrics_validation>>
    /\ EngineFrame

\* calculator.calculate_team_metrics(team_agg, capacity_data, azure_data)
CallTeamMetrics ==
    /\ pc = "engine"
    /\ IF TeamMetricsRaises(team_agg, capacity_data)
       THEN /\ exception' = Raised("KeyError", "calculate_team_metrics")
            /\ UNCHANGED team_metrics
       ELSE /\ exception' = NoException
            /\ team_metrics' =
                   calculate_team_metrics(kpi_weights, team_agg, capacity_data, azure_data)
    /\ call' = Called("calculate_team_metrics", <<exception', team_metrics'>>)
    /\ kpi_weights' = WeightsAfterCall(kpi_weights)
    /\ UNCHANGED <<staff_agg, team_agg, capacity_data, azure_data, sprint_metadata,
                   staff_metrics, cmmi_measures, metrics_validation>>
    /\ EngineFrame

\* calculator.calculate_cmmi_measures(sprint_metadata, azure_data)
CallCmmiMeasures ==
    /\ pc = "engine"
    /\ IF CmmiRaises(sprint_metadata)
       THEN /\ exception' = Raised("TypeError", "calculate_cmmi_measures")
            /\ UNCHANGED cmmi_measures
       ELSE /\ exception' = NoException
            /\ cmmi_measures' = calculate_cmmi_measures(sprint_metadata)
    /\ call' = Called("calculate_cmmi_measures", <<exception', cmmi_measures'>>)
    /\ kpi_weights' = WeightsAfterCall(kpi_weights)
    /\ UNCHANGED <<staff_agg, team_agg, capacity_data, azure_data, sprint_metadata,
                   staff_metrics, team_metrics, metrics_validation>>
    /\ EngineFrame

\* calculator.validate_metrics(staff_metrics)
CallValidateMetrics ==
    /\ pc = "engine"
    /\ IF ValidateMetricsRaises(staff_metrics)
       THEN /\ exception' = Raised("KeyError", "validate_metrics")
            /\ UNCHANGED metrics_validation
       ELSE /\ exception' = NoException
            /\ metrics_validation' = validate_metrics(staff_metrics)
    /\ call' = Called("validate_metrics", <<exception', metrics_validation'>>)
    /\ kpi_weights' = WeightsAfterCall(kpi_weights)
    /\ UNCHANGED <<staff_agg, team_agg, capacity_data, azure_data, sprint_metadata,
                   staff_metrics, team_metrics, cmmi_measures>>
    /\ EngineFrame

NextEngine ==
    \/ CallStaffMetrics
    \/ CallTeamMetrics
    \/ CallCmmiMeasures
    \/ CallValidateMetrics

SpecEngine == InitEngine /\ [][NextEngine]_vars

----------------------------------------------------------------------------
(* Two invocations of process_sprint_file with their steps interleaved.  Every
   invocation has the variables of one invocation, as a function of the
   invocation; the file temp_sprint.xlsx is one file for both.  An upload is
   named by the invocation that received it, and everything read or computed
   from its bytes carries that name. *)

Invocations == {1, 2}

\* What an uploaded workbook can be: complete, without a required column
\* (validate_data reports the error), or without the Capacity sheet
\* (wb['Capacity'] raises KeyError).
UploadKinds == {"complete", "missing_columns", "no_capacity_sheet"}

InitUploads ==
    /\ pc = [i \in Invocations |-> "start"]
    /\ call = NoCall
    /\ init_arg = NoneArg
    /\ kpi_weights = InitWeights(NoneArg)
    /\ columns \in [Invocations -> UploadKinds]
    /\ df = [i \in Invocations |-> 0]
    /\ azure_data = <<>>
    /\ validation = [i \in Invocations |-> 0]
    /\ capacity_sheet = <<>>
    /\ capacity_data = [i \in Invocations |-> 0]
    /\ staff_agg = <<>>
    /\ team_agg = <<>>
    /\ staff_metrics = [i \in Invocations |-> 0]
    /\ team_metrics = <<>>
    /\ sprint_metadata = [i \in Invocations |-> 0]
    /\ cmmi_measures = NoMeasures
    /\ workbook = [i \in Invocations |-> NoFile]
    /\ temp_file = NoFile
    /\ database_ids = {}
    /\ requests = <<>>
    /\ result = [i \in Invocations |-> NoResult]
    /\ exception = NoException
    /\ metrics_validation = NoMetricsReport

UploadsFrame == UNCHANGED <<database_ids, requests, call, init_arg, kpi_weights, columns, azure_data, capacity_sheet, staff_agg, team_agg, team_metrics, cmmi_measures, exception, metrics_validation>>

\* with open(temp_path, "wb") as f: f.write(uploaded_file.getbuffer())
WriteTempFile(i) ==
    /\ pc[i] = "start"
    /\ temp_file' = FileOf(i, {})
    /\ pc' = [pc EXCEPT ![i] = "written"]
    /\ UNCHANGED <<df, validation, capacity_data, staff_metrics, sprint_metadata, workbook, result>>
    /\ UploadsFrame

\* wb = openpyxl.load_workbook(temp_path) and extract_sprint_metadata(wb['Data'])
LoadWorkbook(i) ==
    /\ pc[i] = "written"
    /\ sprint_metadata' = [sprint_metadata EXCEPT ![i] = temp_file.upload]
    /\ pc' = [pc EXCEPT ![i] = "loaded"]
    /\ UNCHANGED <<df, validation, capacity_data, staff_metrics, workbook, temp_file, database_ids, requests, result>>
    /\ UploadsFrame

\* df_azure = pd.read_excel(temp_path, ...), process_azure_data, validate_data
\* and the return of the report with status 'error'
ReadRows(i) ==
    /\ pc[i] = "loaded"
    /\ df' = [df EXCEPT ![i] = temp_file.upload]
    /\ validation' = [validation EXCEPT ![i] = temp_file.upload]
    /\ IF columns[temp_file.upload] = "missing_columns"
       THEN /\ result' = [result EXCEPT ![i] =
                   ReturnValue(NoneValue, Some(temp_file.upload), NoneValue, NoneValue, NoneValue)]
            /\ pc' = [pc EXCEPT ![i] = "returned"]
       ELSE /\ pc' = [pc EXCEPT ![i] = "read"]
            /\ UNCHANGED result
    /\ UNCHANGED <<capacity_data, staff_metrics, sprint_metadata, workbook, temp_file, database_ids, requests>>
    /\ UploadsFrame

\* get_capacity_data(wb['Capacity']), the aggregates, the metric tables and the
\* CMMI measures; a workbook without the sheet raises KeyError, the except
\* clause returns five None
ComputeMetrics(i) ==
    /\ pc[i] = "read"
    /\ IF columns[sprint_metadata[i]] = "no_capacity_sheet"
       THEN /\ result' = [result EXCEPT ![i] = AllNone]
            /\ pc' = [pc EXCEPT ![i] = "returned"]
            /\ UNCHANGED <<capacity_data, staff_metrics>>
       ELSE /\ capacity_data' = [capacity_data EXCEPT ![i] = sprint_metadata[i]]
            /\ staff_metrics' = [staff_metrics EXCEPT ![i] = df[i]]
            /\ pc' = [pc EXCEPT ![i] = "computed"]
            /\ UNCHANGED result
    /\ UNCHANGED <<df, validation, sprint_metadata, workbook, temp_file, database_ids, requests>>
    /\ UploadsFrame

\* updater = ExcelUpdater(temp_path): the workbook is loaded from the file again,
\* and the five updates write the metrics into its sheets
UpdateWorkbook(i) ==
    /\ pc[i] = "computed"
    /\ workbook' = [workbook EXCEPT ![i] =
           FileOf(temp_file.upload, temp_file.analysed \cup {staff_metrics[i]})]
    /\ pc' = [pc EXCEPT ![i] = "updated"]
    /\ UNCHANGED <<df, validation, capacity_data, staff_metrics, sprint_metadata, temp_file, database_ids, requests, result>>
    /\ UploadsFrame

\* updater.save(): self.wb.save(self.workbook_path)
SaveTempFile(i) ==
    /\ pc[i] = "updated"
    /\ temp_file' = workbook[i]
    /\ pc' = [pc EXCEPT ![i] = "saved"]
    /\ UNCHANGED <<df, validation, capacity_data, staff_metrics, sprint_metadata, workbook, result>>
    /\ UploadsFrame

\* with open(temp_path, 'rb') as f: processed_data = f.read(), and the return
ReadBack(i) ==
    /\ pc[i] = "saved"
    /\ result' = [result EXCEPT ![i] =
           ReturnValue(Some(temp_file), Some(validation[i]), Some(staff_metrics[i]),
                       Some(staff_metrics[i]), Some(sprint_metadata[i]))]
    /\ pc' = [pc EXCEPT ![i] = "returned"]
    /\ UNCHANGED <<df, validation, capacity_data, staff_metrics, sprint_metadata, workbook, temp_file, database_ids, requests>>
    /\ UploadsFrame

NextUploads ==
    \E i \in Invocations :
        \/ WriteTempFile(i)
        \/ LoadWorkbook(i)
        \/ ReadRows(i)
        \/ ComputeMetrics(i)
        \/ UpdateWorkbook(i)
        \/ SaveTempFile(i)
        \/ ReadBack(i)

SpecUploads == InitUploads /\ [][NextUploads]_vars

----------------------------------------------------------------------------
(* The sheets ExcelUpdater writes.  A sheet is a function from <<row, column>>
   to the value of the cell; a workbook is a function from sheet names to
   sheets.  Fonts, fills, widths and number formats are left out. *)

\* The value of a cell: a text, a number, or a formula given by its template
\* and the row numbers put into it.
Cell(kind, text, number, row, last) == [kind |-> kind, text |-> text, number |-> number, row |-> row, last |-> last]

\* The value None of a cell that was never written
Blank == Cell("blank", "", Zero, 0, 0)

Str(text) == Cell("str", text, Zero, 0, 0)

Num(number) == Cell("num", "", number, 0, 0)

\* f"...{row}..." and f"...{row}:...{last}..."
Formula(template, row, last) == Cell("formula", template, Zero, row, last)

\* f"='{analysis_sheet_name}'!F{analysis_row}": sheet, column letter and row
Reference(sheet_name, column, row) == Cell(column, sheet_name, Zero, row, row)

\* f'Sprint Name: {sprint_name}'
Title(sprint_name) == Cell("Sprint Name: ", sprint_name, Zero, 0, 0)

\* f"{sprint_name} Analysis"
AnalysisSheetName(sprint_name) ==
    CASE sprint_name = "S1" -> "S1 Analysis"
      [] sprint_name = "S2" -> "S2 Analysis"

\* wb.create_sheet(name): a sheet without cells
NewSheet == [k \in {} |-> Blank]

\* sheet.cell(row, column).value
CellValue(sheet, row, column) == IF <<row, column>> \in DOMAIN sheet THEN sheet[<<row, column>>] ELSE Blank

\* sheet.cell(row=row, column=column, value=value)
SetCell(sheet, row, column, value) == [k \in DOMAIN sheet \cup {<<row, column>>} |-> IF k = <<row, column>> THEN value ELSE sheet[k]]

\* sheet.max_row: 1 for a sheet without cells
max_row(sheet) == IF DOMAIN sheet = {} THEN 1 ELSE CHOOSE r \in {k[1] : k \in DOMAIN sheet} : \A k \in DOMAIN sheet : k[1] <= r

\* sheet.max_column: 1 for a sheet without cells
max_column(sheet) == IF DOMAIN sheet = {} THEN 1 ELSE CHOOSE c \in {k[2] : k \in DOMAIN sheet} : \A k \in DOMAIN sheet : k[2] <= c

\* A sequence of sheet.cell(row, column, value) statements, in order: a cell
\* written more than once holds the value of the last statement for it
SetCells(sheet, writes) ==
    LET written(k) == {i \in 1..Len(writes) : <<writes[i][1], writes[i][2]>> = k}
        last(k) == CHOOSE i \in written(k) : \A j \in written(k) : j <= i
    IN  [k \in DOMAIN sheet \cup {<<writes[i][1], writes[i][2]>> : i \in 1..Len(writes)} |->
            IF written(k) = {} THEN sheet[k] ELSE writes[last(k)][3]]

\* The statements of a loop: those of each turn, one turn after the other
RECURSIVE Turns(_)
Turns(statements) == IF statements = <<>> THEN <<>> ELSE statements[1] \o Turns(Tail(statements))

\* for col_idx, header in enumerate(headers, start=2): sheet.cell(row, col_idx, header)
HeaderCells(row, headers) == [i \in 1..Len(headers) |-> <<row, i + 1, Str(headers[i])>>]

AnalysisHeaders ==
    <<"Row Labels", "Sum of Original Estimate", "Sum of Completed Work",
      "Sum of Remaining Work", "Performance Rate", "Capacity", "Utilization Per Staff">>

start_row == 5

\* The cells of one staff or team row of the Analysis sheet
AnalysisRowCells(current_row, label, r) ==
    << <<current_row, 2, Str(label)>>,
       <<current_row, 3, Num(r.original_estimate)>>,
       <<current_row, 4, Num(r.completed_work)>>,
       <<current_row, 5, Num(r.remaining_work)>>,
       <<current_row, 6, Formula("=C{r}/(D{r}+E{r})", current_row, current_row)>>,
       <<current_row, 7, Num(r.capacity)>>,
       <<current_row, 8, Formula("=D{r}/G{r}", current_row, current_row)>> >>

\* ExcelUpdater.update_analysis_sheet: the workbook after the call
update_analysis_sheet(wb, sprint_name, staff, team) ==
    LET sheet_name == AnalysisSheetName(sprint_name)
        total_row == start_row + 1 + Len(staff)
        data_start == start_row + 1
        data_end == total_row - 1
        team_start_row == total_row + 3
        writes ==
            << <<2, 2, Title(sprint_name)>> >>
            \o HeaderCells(start_row, AnalysisHeaders)
            \o Turns([i \in 1..Len(staff) |->
                        AnalysisRowCells(start_row + i, staff[i].staff_name, staff[i])])
            \o << <<total_row, 2, Str("Grand Total")>>,
                  <<total_row, 3, Formula("=SUM(C{a}:C{b})", data_start, data_end)>>,
                  <<total_row, 4, Formula("=SUM(D{a}:D{b})", data_start, data_end)>>,
                  <<total_row, 5, Formula("=SUM(E{a}:E{b})", data_start, data_end)>>,
                  <<total_row, 6, Formula("=C{r}/(D{r}+E{r})", total_row, total_row)>>,
                  <<total_row, 7, Formula("=SUM(G{a}:G{b})", data_start, data_end)>>,
                  <<total_row, 8, Formula("=D{r}/G{r}", total_row, total_row)>> >>
            \o HeaderCells(team_start_row, AnalysisHeaders)
            \o Turns([i \in 1..Len(team) |->
                        AnalysisRowCells(team_start_row + i, team[i].team, team[i])])
    IN  [n \in DOMAIN wb \cup {sheet_name} |->
            IF n = sheet_name THEN SetCells(NewSheet, writes) ELSE wb[n]]

KpiHeaders ==
    <<"Performance Rate", "Weight", "Utilization Per Staff", "Weight", "Done Tasks %",
      "Weight", "KPI">>

\* row = 3: the first staff row of the 'Kpi Indicators' sheet
kpi_start_row == 3

\* analysis_row = row + 48
analysis_offset == 48

\* The weight, value and KPI cells every row of the 'Kpi Indicators' sheet has
KpiWeightCells(row, done_tasks_pct) ==
    << <<row, 4, Num(Norm(2, 10))>>,
       <<row, 6, Num(Norm(1, 10))>>,
       <<row, 7, done_tasks_pct>>,
       <<row, 8, Num(Norm(7, 10))>>,
       <<row, 9, Formula("=(C{r}*D{r})+(E{r}*F{r})+(G{r}*H{r})", row, row)>> >>

\* ExcelUpdater.update_kpi_indicators_sheet: the workbook after the call
update_kpi_indicators_sheet(wb, staff, team, sprint_name) ==
    LET sheet == IF "Kpi Indicators" \in DOMAIN wb THEN wb["Kpi Indicators"] ELSE NewSheet
        analysis_sheet_name == AnalysisSheetName(sprint_name)
        total_row == kpi_start_row + Len(staff)
        data_end == total_row - 1
        team_start == total_row + 3
        writes ==
            HeaderCells(2, <<"Row Labels">> \o KpiHeaders)
            \o Turns([i \in 1..Len(staff) |->
                 LET row == kpi_start_row + i - 1
                     analysis_row == row + analysis_offset
                 IN  << <<row, 2, Str(staff[i].staff_name)>>,
                        <<row, 3, Reference(analysis_sheet_name, "F", analysis_row)>>,
                        <<row, 5, Reference(analysis_sheet_name, "H", analysis_row)>> >>
                     \o KpiWeightCells(row, Num(staff[i].done_tasks_pct))])
            \o << <<total_row, 2, Str("Grand Total")>>,
                  <<total_row, 3, Formula("=AVERAGE(C{a}:C{b})", kpi_start_row, data_end)>>,
                  <<total_row, 5, Formula("=AVERAGE(E{a}:E{b})", kpi_start_row, data_end)>> >>
            \o KpiWeightCells(total_row, Formula("=AVERAGE(G{a}:G{b})", kpi_start_row, data_end))
            \o HeaderCells(team_start, <<"Team">> \o KpiHeaders)
            \o Turns([i \in 1..Len(team) |->
                 LET row == team_start + i
                 IN  << <<row, 2, Str(team[i].team)>>,
                        <<row, 3, Num(team[i].performance_rate)>>,
                        <<row, 5, Num(team[i].utilization)>> >>
                     \o KpiWeightCells(row, Num(team[i].done_tasks_pct))])
    IN  [n \in DOMAIN wb \cup {"Kpi Indicators"} |->
            IF n = "Kpi Indicators" THEN SetCells(sheet, writes) ELSE wb[n]]

\* for r in range(4, sheet.max_row + 1): the first row whose column B holds
\* the name; 0 for staff_row = None
StaffRowOf(sheet, staff_name) ==
    LET found == {r \in 4..max_row(sheet) : CellValue(sheet, r, 2) = Str(staff_name)}
    IN  IF found = {} THEN 0 ELSE CHOOSE r \in found : \A q \in found : r <= q

\* for idx, staff in staff_metrics.iterrows(): the rows from the i-th on
RECURSIVE AppendStaffRows(_, _, _, _)
AppendStaffRows(sheet, staff, i, next_col) ==
    IF i > Len(staff) THEN sheet
    ELSE LET found == StaffRowOf(sheet, staff[i].staff_name)
             staff_row == IF found = 0 THEN max_row(sheet) + 1 ELSE found
             named == IF found = 0
                      THEN SetCell(sheet, staff_row, 2, Str(staff[i].staff_name))
                      ELSE sheet
         IN  AppendStaffRows(SetCell(named, staff_row, next_col, Num(staff[i].kpi)),
                             staff, i + 1, next_col)

\* ExcelUpdater.append_to_historical_staff: the workbook after the call
append_to_historical_staff(wb, staff, sprint_name) ==
    LET sheet == IF "Kpi Indicators Per Staff" \in DOMAIN wb
                 THEN wb["Kpi Indicators Per Staff"]
                 ELSE SetCells(NewSheet, << <<2, 2, Str("Kpi Indicators Per Staff")>>,
                                           <<3, 2, Str("Team Member")>> >>)
        next_col == max_column(sheet) + 1
        headed == SetCell(sheet, 3, next_col, Str(sprint_name))
    IN  [n \in DOMAIN wb \cup {"Kpi Indicators Per Staff"} |->
            IF n = "Kpi Indicators Per Staff"
            THEN AppendStaffRows(headed, staff, 1, next_col)
            ELSE wb[n]]

SheetNames == {"a", "b"}

SheetKpis == {Norm(1, 1), Norm(1, 2)}

\* A row of the staff metrics table, with the columns the sheets show
SheetStaffRows ==
    {[staff_name |-> n, original_estimate |-> Norm(8, 1), completed_work |-> Norm(4, 1),
      remaining_work |-> Norm(4, 1), capacity |-> Norm(63, 1), done_tasks_pct |-> Norm(1, 2),
      kpi |-> k] : n \in SheetNames, k \in SheetKpis}

SheetTables ==
    {<<>>} \cup {<<r>> : r \in SheetStaffRows}
           \cup {<<r, q>> : r \in SheetStaffRows, q \in SheetStaffRows}

SheetTeamRows ==
    <<[team |-> "Development", original_estimate |-> Norm(8, 1),
       completed_work |-> Norm(4, 1), remaining_work |-> Norm(4, 1),
       capacity |-> Norm(63, 1), performance_rate |-> Norm(1, 1),
       utilization |-> Norm(4, 63), done_tasks_pct |-> Norm(1, 2),
       kpi |-> Norm(1, 2)]>>

SprintNames == {"S1", "S2"}

InitUpdater ==
    /\ pc = "update_analysis_sheet"
    /\ call = [op |-> "none", args |-> <<>>, ret |-> 0]
    /\ init_arg = NoneArg
    /\ kpi_weights = InitWeights(NoneArg)
    /\ columns = AllColumns
    /\ df = <<>>
    /\ azure_data = <<>>
    /\ validation = NoReport
    /\ capacity_sheet = <<>>
    /\ capacity_data = NoTable
    /\ staff_agg = <<>>
    /\ team_agg = <<>>
    /\ staff_metrics \in SheetTables
    /\ team_metrics = SheetTeamRows
    /\ sprint_metadata = [sprint_name |-> "S1"]
    /\ cmmi_measures = NoMeasures
    /\ workbook = [n \in {} |-> NewSheet]
    /\ temp_file = NoFile
    /\ database_ids = {}
    /\ requests = <<>>
    /\ result = NoResult
    /\ exception = NoException
    /\ metrics_validation = NoMetricsReport

UpdaterFrame == UNCHANGED <<init_arg, kpi_weights, columns, df, azure_data, validation, capacity_sheet, capacity_data, staff_agg, team_agg, team_metrics, cmmi_measures, temp_file, database_ids, requests, result, exception, metrics_validation>>

\* updater.update_analysis_sheet(sprint_name, staff_metrics, team_metrics)
UpdateAnalysisSheet ==
    /\ pc = "update_analysis_sheet"
    /\ workbook' = update_analysis_sheet(workbook, sprint_metadata.sprint_name,
                                         staff_metrics, team_metrics)
    /\ pc' = "update_kpi_indicators_sheet"
    /\ UNCHANGED <<call, staff_metrics, sprint_metadata>>
    /\ UpdaterFrame

\* updater.update_kpi_indicators_sheet(staff_metrics, team_metrics, sprint_name)
UpdateKpiIndicatorsSheet ==
    /\ pc = "update_kpi_indicators_sheet"
    /\ workbook' = update_kpi_indicators_sheet(workbook, staff_metrics, team_metrics,
                                               sprint_metadata.sprint_name)
    /\ pc' = "append_to_historical_staff"
    /\ UNCHANGED <<call, staff_metrics, sprint_metadata>>
    /\ UpdaterFrame

\* updater.append_to_historical_staff(staff_metrics, sprint_name); call.ret
\* counts the calls on this workbook
AppendToHistoricalStaff ==
    /\ pc = "append_to_historical_staff"
    /\ call.ret < MaxCalls
    /\ workbook' = append_to_historical_staff(workbook, staff_metrics,
                                              sprint_metadata.sprint_name)
    /\ call' = [op |-> "append_to_historical_staff",
                args |-> <<staff_metrics, sprint_metadata.sprint_name>>,
                ret |-> call.ret + 1]
    /\ pc' = "uploaded_again"
    /\ UNCHANGED <<staff_metrics, sprint_metadata>>
    /\ UpdaterFrame

\* The saved workbook is uploaded again with the data of another sprint.
NextSprint ==
    /\ pc = "uploaded_again"
    /\ call.ret < MaxCalls
    /\ staff_metrics' \in SheetTables
    /\ sprint_metadata' \in {[sprint_name |-> n] : n \in SprintNames}
    /\ pc' = "append_to_historical_staff"
    /\ UNCHANGED <<call, workbook>>
    /\ UpdaterFrame

NextUpdater ==
    \/ UpdateAnalysisSheet
    \/ UpdateKpiIndicatorsSheet
    \/ AppendToHistoricalStaff
    \/ NextSprint

SpecUpdater == InitUpdater /\ [][NextUpdater]_vars

----------------------------------------------------------------------------
(* NotionExporter.export_all.  A request is one requests.post to
   https://api.notion.com/v1/pages: the database of its parent, the title of
   the page, the id in its Sprint relation, and its outcome.  Notion gives
   every created page an id of its own: the n-th request creates page n. *)

Databases == {"sprint_summary", "staff_performance", "team_performance", "cmmi_history"}

\* The id of a page that was not created
NoPage == 0

\* What requests.post can do with the n-th request: return status 200 and the
\* id of the new page, return another status, or raise (no connection).
Responses(n) ==
    {[raised |-> FALSE, status_code |-> 200, id |-> n],
     [raised |-> FALSE, status_code |-> 400, id |-> NoPage],
     [raised |-> TRUE, status_code |-> 0, id |-> NoPage]}

Request(database, title, sprint_id, response) == [database |-> database, title |-> title, sprint |-> sprint_id, response |-> response]

\* Variant of PageCreated: every response counts as a created page.
PageCreatedAlways(response) == ~response.raised

\* if response.status_code == 200
PageCreated(response) == ~response.raised /\ response.status_code = 200

\* The exception a request that created no page ends create_sprint_summary_page
\* and create_cmmi_history_page with
RequestException(response, function) ==
    IF response.raised THEN Raised("ConnectionError", function) ELSE Raised("Exception", function)

NotionStaff ==
    {<<>>, <<[staff_name |-> "a"]>>, <<[staff_name |-> "a"], [staff_name |-> "b"]>>}

NotionTeams == {<<>>, <<[team |-> "Development"]>>}

\* The locals of export_all: sprint_id, staff_pages, team_pages, cmmi_page
NoPages == [sprint_id |-> NoPage, staff_pages |-> <<>>, team_pages |-> <<>>, cmmi_page |-> NoPage]

InitNotion ==
    /\ pc = "create_sprint_summary_page"
    /\ call = [op |-> "export_all", args |-> <<>>, ret |-> <<>>]
    /\ init_arg = NoneArg
    /\ kpi_weights = InitWeights(NoneArg)
    /\ columns = AllColumns
    /\ df = <<>>
    /\ azure_data = <<>>
    /\ validation = NoReport
    /\ capacity_sheet = <<>>
    /\ capacity_data = NoTable
    /\ staff_agg = <<>>
    /\ team_agg = <<>>
    /\ staff_metrics \in NotionStaff
    /\ team_metrics \in NotionTeams
    /\ sprint_metadata = [sprint_name |-> "S1"]
    /\ cmmi_measures = NoMeasures
    /\ workbook = NoWorkbook
    /\ temp_file = NoFile
    /\ database_ids \in SUBSET Databases
    /\ requests = <<>>
    /\ result = NoPages
    /\ exception = NoException
    /\ metrics_validation = NoMetricsReport

NotionFrame == UNCHANGED <<init_arg, kpi_weights, columns, df, azure_data, validation, capacity_sheet, capacity_data, staff_agg, team_agg, staff_metrics, team_metrics, sprint_metadata, cmmi_measures, workbook, temp_file, database_ids, metrics_validation>>

\* An exception leaves export_all: nothing is returned.
NotionRaise(e) ==
    /\ pc' = "raised"
    /\ exception' = e
    /\ UNCHANGED <<call, result>>

\* sprint_id = self.create_sprint_summary_page(sprint_metadata, cmmi_measures)
CreateSprintSummaryPage ==
    /\ pc = "create_sprint_summary_page"
    /\ IF "sprint_summary" \notin database_ids
       THEN /\ NotionRaise(Raised("ValueError", "create_sprint_summary_page"))
            /\ UNCHANGED requests
       ELSE \E response \in Responses(Len(requests) + 1) :
            /\ requests' = Append(requests, Request("sprint_summary", sprint_metadata.sprint_name,
                                                    NoPage, response))
            /\ IF PageCreated(response)
               THEN /\ result' = [result EXCEPT !.sprint_id = response.id]
                    /\ pc' = "create_staff_performance_pages"
                    /\ UNCHANGED <<call, exception>>
               ELSE NotionRaise(RequestException(response, "create_sprint_summary_page"))
    /\ NotionFrame

\* The test of the database id and created_pages = [] of a page loop
EnterPages(function, database, loop) ==
    /\ pc = function
    /\ IF database \notin database_ids
       THEN NotionRaise(Raised("ValueError", function))
       ELSE /\ call' = [op |-> function, args |-> <<1>>, ret |-> <<>>]
            /\ pc' = loop
            /\ UNCHANGED <<result, exception>>
    /\ UNCHANGED requests
    /\ NotionFrame

\* One turn of a page loop: the request of the row, and its id appended to
\* created_pages when the page was created
PageRequest(function, database, loop, title) ==
    /\ pc = loop
    /\ \E response \in Responses(Len(requests) + 1) :
        /\ requests' = Append(requests, Request(database, title, result.sprint_id, response))
        /\ IF response.raised
           THEN NotionRaise(Raised("ConnectionError", function))
           ELSE /\ call' = [call EXCEPT !.args = <<call.args[1] + 1>>,
                                        !.ret = IF PageCreated(response)
                                                THEN Append(call.ret, response.id)
                                                ELSE call.ret]
                /\ UNCHANGED <<pc, result, exception>>
    /\ NotionFrame

\* create_staff_performance_pages(staff_metrics, sprint_id), up to the loop
EnterStaffPages == EnterPages("create_staff_performance_pages", "staff_performance", "staff_loop")

\* for _, staff in staff_metrics.iterrows(): one request
StaffPageRequest ==
    /\ pc = "staff_loop"
    /\ call.args[1] <= Len(staff_metrics)
    /\ PageRequest("create_staff_performance_pages", "staff_performance", "staff_loop",
                   staff_metrics[call.args[1]].staff_name)

\* return created_pages
ReturnStaffPages ==
    /\ pc = "staff_loop"
    /\ call.args[1] > Len(staff_metrics)
    /\ result' = [result EXCEPT !.staff_pages = call.ret]
    /\ pc' = "create_team_performance_pages"
    /\ UNCHANGED <<call, requests, exception>>
    /\ NotionFrame

\* create_team_performance_pages(team_metrics, sprint_id), up to the loop
EnterTeamPages == EnterPages("create_team_performance_pages", "team_performance", "team_loop")

\* for _, team in team_metrics.iterrows(): one request
TeamPageRequest ==
    /\ pc = "team_loop"
    /\ call.args[1] <= Len(team_metrics)
    /\ PageRequest("create_team_performance_pages", "team_performance", "team_loop",
                   team_metrics[call.args[1]].team)

\* return created_pages
ReturnTeamPages ==
    /\ pc = "team_loop"
    /\ call.args[1] > Len(team_metrics)
    /\ result' = [result EXCEPT !.team_pages = call.ret]
    /\ pc' = "create_cmmi_history_page"
    /\ UNCHANGED <<call, requests, exception>>
    /\ NotionFrame

\* cmmi_page = self.create_cmmi_history_page(cmmi_measures, sprint_id) and the
\* return of export_all
CreateCmmiHistoryPage ==
    /\ pc = "create_cmmi_history_page"
    /\ IF "cmmi_history" \notin database_ids
       THEN /\ NotionRaise(Raised("ValueError", "create_cmmi_history_page"))
            /\ UNCHANGED requests
       ELSE \E response \in Responses(Len(requests) + 1) :
            /\ requests' = Append(requests, Request("cmmi_history", sprint_metadata.sprint_name,
                                                    result.sprint_id, response))
            /\ IF PageCreated(response)
               THEN /\ result' = [result EXCEPT !.cmmi_page = response.id]
                    /\ pc' = "returned"
                    /\ UNCHANGED <<call, exception>>
               ELSE NotionRaise(RequestException(response, "create_cmmi_history_page"))
    /\ NotionFrame

NextNotion ==
    \/ CreateSprintSummaryPage
    \/ EnterStaffPages
    \/ StaffPageRequest
    \/ ReturnStaffPages
    \/ EnterTeamPages
    \/ TeamPageRequest
    \/ ReturnTeamPages
    \/ CreateCmmiHistoryPage

SpecNotion == InitNotion /\ [][NextNotion]_vars

----------------------------------------------------------------------------
(* Properties of the metric tables *)

NonNegative(q) == IsNumber(q) /\ q.n >= 0

RatiosNonNegative(row) ==
    /\ NonNegative(row.performance_rate)
    /\ NonNegative(row.utilization)
    /\ NonNegative(row.done_tasks_pct)
    /\ NonNegative(row.midsprint_addition_pct)
    /\ NonNegative(row.adhoc_pct)

\* C2: every staff and team metrics row computed from normalized and
\* aggregated raw rows has its five ratios >= 0.
C2_RatiosNonNegative ==
    /\ \A i \in 1..Len(staff_metrics) : RatiosNonNegative(staff_metrics[i])
    /\ \A i \in 1..Len(team_metrics) : RatiosNonNegative(team_metrics[i])

\* 10000 * q lies within 10 of n: q is n/10000 up to 0.001.
Near(q, n) == (n - 10) * q.d <= 10000 * q.n /\ 10000 * q.n <= (n + 10) * q.d

\* The aggregate of the end-to-end scenario, computed with the default
\* weights and a capacity of 63.
IsScenario(row) ==
    /\ row.original_estimate = 89 /\ row.completed_work = 64 /\ row.remaining_work = 1
    /\ row.done_count = 10 /\ row.total_count = 10
    /\ row.capacity = 63
    /\ kpi_weights = DefaultWeights

\* C3 as stated: the scenario yields performance_rate 0.9846, utilization
\* 1.0159, done_tasks_pct 1.0 and kpi 0.9990, each within 0.001.
C3_ScenarioAsStated ==
    \A i \in 1..Len(staff_metrics) :
        IsScenario(staff_metrics[i]) =>
            /\ Near(staff_metrics[i].performance_rate, 9846)
            /\ Near(staff_metrics[i].utilization, 10159)
            /\ staff_metrics[i].done_tasks_pct = Int2Rat(1)
            /\ Near(staff_metrics[i].kpi, 9990)

\* C3 amended: the scenario yields performance_rate 89/65 = 1.3692,
\* utilization 1.0159, done_tasks_pct 1.0 and kpi 1.0754, each within 0.001.
C3_Scenario ==
    \A i \in 1..Len(staff_metrics) :
        IsScenario(staff_metrics[i]) =>
            /\ Near(staff_metrics[i].performance_rate, 13692)
            /\ Near(staff_metrics[i].utilization, 10159)
            /\ staff_metrics[i].done_tasks_pct = Int2Rat(1)
            /\ Near(staff_metrics[i].kpi, 10754)

\* The scenario has been computed.
C3_Witness ==
    /\ pc = "staff_metrics"
    /\ Len(staff_metrics) = 1
    /\ IsScenario(staff_metrics[1])
    /\ staff_metrics[1].staff_name = AhmedName

\* Weights a calculator may be rebuilt with, and factors to scale weights by.
OtherWeights ==
    {DefaultWeights,
     [performance_rate |-> Int2Rat(1), utilization |-> Zero, done_tasks |-> Norm(1, 3)],
     [performance_rate |-> Zero, utilization |-> Zero, done_tasks |-> Zero]}

Factors == {Zero, Int2Rat(2), Norm(1, 3), Norm(0 - 3, 2)}

Scale(w, c) ==
    [performance_rate |-> RatMul(c, w.performance_rate),
     utilization |-> RatMul(c, w.utilization),
     done_tasks |-> RatMul(c, w.done_tasks)]

SameRatios(a, b) ==
    /\ a.performance_rate = b.performance_rate
    /\ a.utilization = b.utilization
    /\ a.done_tasks_pct = b.done_tasks_pct

\* The KPI of a row under the weights (2/10, 1/10, 7/10).
DefaultKpi(row) ==
    RatAdd(RatAdd(RatMul(row.performance_rate, Norm(2, 10)),
                  RatMul(row.utilization, Norm(1, 10))),
           RatMul(row.done_tasks_pct, Norm(7, 10)))

\* What the claim says of a table computed with the weights of the
\* calculator, against the tables other calculators compute from the same inputs.
LinearInWeights(table, Compute(_)) ==
    /\ init_arg.kind = "None" => \A i \in 1..Len(table) : table[i].kpi = DefaultKpi(table[i])
    /\ \A w \in OtherWeights :
        /\ Len(Compute(w)) = Len(table)
        /\ \A i \in 1..Len(table) : SameRatios(Compute(w)[i], table[i])
    /\ \A c \in Factors :
        \A i \in 1..Len(table) :
            Compute(Scale(kpi_weights, c))[i].kpi = RatMul(c, table[i].kpi)

\* C4: built without weights the KPI is 0.2*performance_rate + 0.1*utilization
\* + 0.7*done_tasks_pct; other weights leave the three ratios of every row
\* unchanged; weights multiplied by c give every kpi multiplied by c.
C4_KpiLinearInWeights ==
    /\ pc \in {"staff_metrics", "team_metrics"} =>
        LinearInWeights(staff_metrics,
            LAMBDA w : calculate_staff_metrics(w, staff_agg, capacity_data, azure_data))
    /\ pc = "team_metrics" =>
        LinearInWeights(team_metrics,
            LAMBDA w : calculate_team_metrics(w, team_agg, capacity_data, azure_data))

\* A calculator built without weights has computed a row whose three ratios
\* are all non-zero and differ.
C4_Witness ==
    /\ pc = "team_metrics"
    /\ init_arg.kind = "None"
    /\ Len(staff_metrics) = 1
    /\ staff_metrics[1].performance_rate.n /= 0
    /\ staff_metrics[1].utilization.n /= 0
    /\ staff_metrics[1].done_tasks_pct.n /= 0
    /\ staff_metrics[1].utilization /= staff_metrics[1].done_tasks_pct

----------------------------------------------------------------------------
(* Properties of the aggregates *)

RECURSIVE SumTotalCount(_)
SumTotalCount(groups) ==
    IF groups = <<>> THEN 0 ELSE Head(groups).total_count + SumTotalCount(Tail(groups))

\* The items that have a staff email, a staff name and a team; those that have a team.
StaffKeyed == {i \in 1..Len(azure_data) : HasStaffKey(azure_data[i])}

TeamKeyed == {i \in 1..Len(azure_data) : HasTeamKey(azure_data[i])}

AggregatesComputed == pc \in {"team_agg", "staff_metrics", "team_metrics"}

StaffGroupsOf(i) ==
    {g \in 1..Len(staff_agg) :
        /\ staff_agg[g].staff_email = azure_data[i].staff_email
        /\ staff_agg[g].staff_name = azure_data[i].staff_name
        /\ staff_agg[g].team = azure_data[i].team}

TeamGroupsOf(i) == {g \in 1..Len(team_agg) : team_agg[g].team = azure_data[i].team}

\* C5 as stated: the total_count sums of the staff groups and of the team
\* groups are equal, and equal the number of items with resolvable keys.
C5_SumsEqualAsStated ==
    AggregatesComputed =>
        /\ SumTotalCount(staff_agg) = SumTotalCount(team_agg)
        /\ SumTotalCount(staff_agg) = Cardinality(StaffKeyed)

\* C5 amended: the staff groups partition the items that have email, name and
\* team, the team groups partition the items that have a team; each sum of
\* total_count is the number of those items, and the two sums are equal
\* exactly when every item with a team has a name and an email.
C5_Partition ==
    AggregatesComputed =>
        /\ SumTotalCount(staff_agg) = Cardinality(StaffKeyed)
        /\ SumTotalCount(team_agg) = Cardinality(TeamKeyed)
        /\ \A i \in StaffKeyed : Cardinality(StaffGroupsOf(i)) = 1
        /\ \A i \in TeamKeyed : Cardinality(TeamGroupsOf(i)) = 1
        /\ \A g \in 1..Len(staff_agg) : \E i \in StaffKeyed : g \in StaffGroupsOf(i)
        /\ \A g \in 1..Len(team_agg) : \E i \in TeamKeyed : g \in TeamGroupsOf(i)
        /\ SumTotalCount(staff_agg) <= SumTotalCount(team_agg)
        /\ (SumTotalCount(staff_agg) = SumTotalCount(team_agg)) <=> (TeamKeyed = StaffKeyed)

\* An item of a person and an item that has a team and no assignee: fewer
\* items in the staff groups than in the team groups.
C5_Witness ==
    /\ pc = "team_agg"
    /\ Len(staff_agg) >= 1
    /\ SumTotalCount(staff_agg) >= 1
    /\ SumTotalCount(staff_agg) < SumTotalCount(team_agg)

\* C6: in every staff group and every team group done_count <= total_count,
\* total_count being the number of items of the group and done_count the
\* number of those that are done.
C6_DoneAtMostTotal ==
    /\ \A g \in 1..Len(staff_agg) :
        LET members == {i \in StaffKeyed : g \in StaffGroupsOf(i)}
        IN  /\ staff_agg[g].done_count <= staff_agg[g].total_count
            /\ staff_agg[g].total_count = Cardinality(members)
            /\ staff_agg[g].done_count =
                   Cardinality({i \in members : IsDoneState(azure_data[i].State)})
    /\ \A g \in 1..Len(team_agg) :
        LET members == {i \in TeamKeyed : g \in TeamGroupsOf(i)}
        IN  /\ team_agg[g].done_count <= team_agg[g].total_count
            /\ team_agg[g].total_count = Cardinality(members)
            /\ team_agg[g].done_count =
                   Cardinality({i \in members : IsDoneState(azure_data[i].State)})

\* A staff group of two items of which one is done.
C6_Witness ==
    /\ pc = "team_agg"
    /\ \E g \in 1..Len(staff_agg) :
        staff_agg[g].done_count = 1 /\ staff_agg[g].total_count = 2

----------------------------------------------------------------------------
(* Properties of the capacity lookups and of the tag percentages *)

\* The items of the staff group that metrics row i was computed from.
StaffMembers(i) ==
    {k \in StaffKeyed :
        /\ azure_data[k].staff_email = staff_metrics[i].staff_email
        /\ azure_data[k].staff_name = staff_metrics[i].staff_name
        /\ azure_data[k].team = staff_metrics[i].team}

TeamMembers(i) == {k \in TeamKeyed : azure_data[k].team = team_metrics[i].team}

\* C7: a staff group built from rows whose 'Assigned To' string S parses to a
\* name and an email gets the remaining_capacity of the capacity entry whose
\* staff_member equals S, when there is one.
C7_CapacityOfAssignedToString ==
    \A i \in 1..Len(staff_metrics) :
        \A k \in StaffMembers(i) :
            \A j \in 1..Len(capacity_data.rows) :
                capacity_data.rows[j].staff_member = azure_data[k].Assigned_To
                    => staff_metrics[i].capacity = capacity_data.rows[j].remaining_capacity

StaffMetricsComputed == pc \in {"staff_metrics", "team_metrics"}

HasEntryFor(row) ==
    \E j \in 1..Len(capacity_data.rows) :
        capacity_data.rows[j].staff_member = IdentityString(row.staff_name, row.staff_email)

RECURSIVE EntriesSum(_, _)
EntriesSum(team, j) ==
    IF j > Len(capacity_data.rows) THEN 0
    ELSE (IF capacity_data.rows[j].team = team
          THEN capacity_data.rows[j].remaining_capacity ELSE 0)
         + EntriesSum(team, j + 1)

RECURSIVE SumCompletedWork(_)
SumCompletedWork(I) ==
    IF I = {} THEN 0
    ELSE LET k == CHOOSE x \in I : TRUE
         IN  azure_data[k].Completed_Work + SumCompletedWork(I \ {k})

\* numerator / denominator, and 0 for the denominator 0
Share(numerator, denominator) ==
    IF denominator = 0 THEN Zero ELSE Norm(numerator, denominator)

TagSharesOf(row, members) ==
    /\ row.midsprint_addition_pct =
          Share(SumCompletedWork({k \in members : azure_data[k].has_midsprint_addition}),
                row.completed_work)
    /\ row.adhoc_pct =
          Share(SumCompletedWork({k \in members : azure_data[k].has_adhoc}),
                row.completed_work)

\* C10: midsprint_addition_pct and adhoc_pct of every staff group and of every
\* team group are the completed work of exactly the flagged items of that
\* group, divided by the completed work of the group.
C10_TagSharesOfTheGroup ==
    /\ \A i \in 1..Len(staff_metrics) : TagSharesOf(staff_metrics[i], StaffMembers(i))
    /\ \A i \in 1..Len(team_metrics) : TagSharesOf(team_metrics[i], TeamMembers(i))

----------------------------------------------------------------------------
(* Properties of validate_metrics *)

MetricsValidated == pc \in {"staff_validated", "team_validated"}

\* The table validate_metrics was called on.
ValidatedTable == IF pc = "staff_validated" THEN staff_metrics ELSE team_metrics

\* The staff name of a row of the staff table, the team name of a row of the team table.
NameOfRow(row) == IF pc = "staff_validated" THEN row.staff_name ELSE row.team

WarningsOfType(type) == SelectSeq(metrics_validation.warnings, LAMBDA w : w.type = type)

\* The k-th smallest element of a set of row numbers.
Kth(I, k) == CHOOSE i \in I : Cardinality({j \in I : j < i}) = k - 1

\* The warnings are those of the rows I, one each, in row order, each with the
\* row's name and the row's value.
OnePerRow(warnings, I, value) ==
    /\ Len(warnings) = Cardinality(I)
    /\ \A k \in 1..Len(warnings) :
        /\ warnings[k].staff = NameOfRow(ValidatedTable[Kth(I, k)])
        /\ warnings[k].value = value[Kth(I, k)]

\* C11: validate_metrics emits exactly one high_utilization warning for each
\* row whose utilization is strictly greater than 1.5 (that is, 2u > 3) and
\* none for a row at or below 1.5; each warning carries the name of the row
\* (staff name, or team name for a team table) and the utilization.
C11_HighUtilizationWarnings ==
    MetricsValidated =>
        LET t == ValidatedTable
        IN  OnePerRow(WarningsOfType("high_utilization"),
                      {i \in 1..Len(t) : 2 * t[i].utilization.n > 3 * t[i].utilization.d},
                      [i \in 1..Len(t) |-> t[i].utilization])

\* A staff table with a row at 1.51 and a row at 1.5 of another member: one
\* warning, for the first.
C11_Witness ==
    /\ pc = "staff_validated"
    /\ Len(staff_metrics) = 2
    /\ staff_metrics[1].utilization = Norm(3, 2)
    /\ staff_metrics[2].utilization = Norm(151, 100)
    /\ staff_metrics[1].staff_name /= staff_metrics[2].staff_name
    /\ Len(WarningsOfType("high_utilization")) = 1
    /\ WarningsOfType("high_utilization")[1].staff = staff_metrics[2].staff_name

\* C12: validate_metrics emits exactly one low_performance_rate warning per
\* row with performance_rate < 0.5 (none at 0.5) and exactly one kpi_outlier
\* warning per row whose kpi is below 0.3 or above 1.5 (none at 0.3 or 1.5).
C12_RateAndKpiWarnings ==
    MetricsValidated =>
        LET t == ValidatedTable
        IN  /\ OnePerRow(WarningsOfType("low_performance_rate"),
                         {i \in 1..Len(t) :
                            2 * t[i].performance_rate.n < t[i].performance_rate.d},
                         [i \in 1..Len(t) |-> t[i].performance_rate])
            /\ OnePerRow(WarningsOfType("kpi_outlier"),
                         {i \in 1..Len(t) :
                            \/ 10 * t[i].kpi.n < 3 * t[i].kpi.d
                            \/ 2 * t[i].kpi.n > 3 * t[i].kpi.d},
                         [i \in 1..Len(t) |-> t[i].kpi])

\* A team table with a row at performance rate 0.5 and kpi 0.3, and a row at
\* 0.49 and 0.29: one warning of each kind, for the second row.
C12_Witness ==
    /\ pc = "team_validated"
    /\ Len(team_metrics) = 2
    /\ team_metrics[1].performance_rate = Norm(1, 2)
    /\ team_metrics[1].kpi = Norm(3, 10)
    /\ team_metrics[2].performance_rate = Norm(49, 100)
    /\ team_metrics[2].kpi = Norm(29, 100)
    /\ Len(WarningsOfType("low_performance_rate")) = 1
    /\ Len(WarningsOfType("kpi_outlier")) = 1

\* C14: the report of validate_metrics has status 'warning' exactly when its
\* list of warnings is not empty and 'success' exactly when it is empty; its
\* status is never 'error'.
C14_MetricsStatus ==
    MetricsValidated =>
        /\ metrics_validation.status = "warning" <=> metrics_validation.warnings /= <<>>
        /\ metrics_validation.status = "success" <=> metrics_validation.warnings = <<>>
        /\ metrics_validation.status /= "error"

\* A report with three warnings on one row.
C14_Witness ==
    /\ MetricsValidated
    /\ Len(ValidatedTable) = 1
    /\ Len(metrics_validation.warnings) = 3
    /\ metrics_validation.status = "warning"

----------------------------------------------------------------------------
(* Properties of calculate_cmmi_measures *)

\* q is the quotient a / b of the reference definition: 0 when b <= 0.
IsGuardedQuotient(q, a, b) ==
    IF b <= 0 THEN q = Zero ELSE IsNumber(q) /\ q.n * b = a * q.d

\* The classification of the reference definition.
IsClassified(label, good) == label = IF good THEN "Good" ELSE "Needs Improvement"

\* q >= h/100 and q <= h/100.
AtLeast(q, h) == h * q.d <= 100 * q.n

AtMost(q, h) == 100 * q.n <= h * q.d

\* C19: for every numeric metadata record calculate_cmmi_measures gives
\* completion_rate = actual_sp/planned_sp (0 if planned_sp <= 0), 'Good' iff it
\* is >= 0.90; effort_estimation_accuracy = estimated/actual dev effort (0 if
\* actual <= 0), 'Good' iff it is in [0.90, 1.20]; bug_fixing_effort_pct =
\* bug fixing/actual dev effort (0 if actual <= 0); utilization_rate = actual
\* hours/working hours (0 if working hours <= 0); cmmi_productivity =
\* actual_sp/utilization_rate when utilization_rate > 0, else 0; every other
\* classification is 'Needs Improvement'.
C19_CmmiMeasuresAsDefined ==
    pc = "cmmi" =>
        LET m == sprint_metadata
            c == cmmi_measures
            u == c.utilization_rate
        IN  /\ IsGuardedQuotient(c.completion_rate, m.actual_sp.v, m.planned_sp.v)
            /\ IsClassified(c.completion_rate_analysis, AtLeast(c.completion_rate, 90))
            /\ IsGuardedQuotient(c.effort_estimation_accuracy, m.estimated_dev_effort.v,
                                 m.actual_dev_effort.v)
            /\ IsClassified(c.effort_estimation_analysis,
                            /\ AtLeast(c.effort_estimation_accuracy, 90)
                            /\ AtMost(c.effort_estimation_accuracy, 120))
            /\ IsGuardedQuotient(c.bug_fixing_effort_pct, m.bug_fixing_effort.v,
                                 m.actual_dev_effort.v)
            /\ IsGuardedQuotient(u, m.sum_actual_hours.v, m.sum_working_hours.v)
            /\ IF u.n > 0
               THEN /\ IsNumber(c.cmmi_productivity)
                    /\ c.cmmi_productivity.n * u.n = m.actual_sp.v * u.d * c.cmmi_productivity.d
               ELSE c.cmmi_productivity = Zero

\* A sprint at both ends of the 'Good' ranges: 9 of 10 story points, 12 hours
\* estimated for 10 spent, and a productivity that is not 0.
C19_Witness ==
    /\ pc = "cmmi"
    /\ cmmi_measures.completion_rate = Norm(9, 10)
    /\ cmmi_measures.completion_rate_analysis = "Good"
    /\ cmmi_measures.effort_estimation_accuracy = Norm(6, 5)
    /\ cmmi_measures.effort_estimation_analysis = "Good"
    /\ cmmi_measures.utilization_rate = Norm(4, 5)
    /\ cmmi_measures.cmmi_productivity = Norm(45, 4)

----------------------------------------------------------------------------
(* Properties of validate_data and of process_sprint_file *)

\* The required columns the table lacks.
MissingRequired == {c \in {required_cols[i] : i \in 1..Len(required_cols)} : c \notin StripColumns(columns)}

\* validate_data has returned a report.
Validated == validation.status /= "none"

\* C13: the report of validate_data has status 'error' if a required column is
\* missing, otherwise 'warning' if it recorded a non-fatal issue, otherwise
\* 'success'.
C13_StatusOfTheReport ==
    Validated =>
        validation.status =
            IF MissingRequired /= {} THEN "error"
            ELSE IF validation.warnings /= <<>> THEN "warning"
            ELSE "success"

\* C15: validate_data returns a report for every table and never raises; when
\* a required column is missing the status is 'error' and the errors name the
\* missing columns.
C15_ValidateDataReturns ==
    /\ exception.raised_in /= "validate_data"
    /\ (Validated /\ MissingRequired /= {}) =>
        /\ validation.status = "error"
        /\ \E i \in 1..Len(validation.errors) :
            /\ validation.errors[i].type = "missing_columns"
            /\ {validation.errors[i].columns[j] : j \in 1..Len(validation.errors[i].columns)}
                    = MissingRequired

\* None of the steps after the validation has run.
NothingComputed ==
    /\ capacity_data = NoTable
    /\ staff_agg = <<>> /\ team_agg = <<>>
    /\ staff_metrics = <<>> /\ team_metrics = <<>>
    /\ cmmi_measures = NoMeasures
    /\ workbook = NoWorkbook

\* process_sprint_file returned the validation report and nothing else.
ReturnedOnlyTheReport ==
    /\ result.returned
    /\ result.validation.some
    /\ result.validation.value.status = validation.status
    /\ result.validation.value.errors = validation.errors
    /\ ~result.processed_data.some
    /\ ~result.staff_metrics.some
    /\ ~result.team_metrics.some
    /\ ~result.cmmi_measures.some

\* C16: when the raw table lacks a required column, process_sprint_file
\* returns a validation report with status 'error' that holds the
\* missing-columns error, does not fail in the normalization, and runs no
\* aggregation, metric computation, sheet update or save.
C16_MissingColumnIsReported ==
    (MissingRequired /= {} /\ pc \notin {"uploaded", "processed"}) =>
        /\ exception = NoException
        /\ ReturnedOnlyTheReport
        /\ validation.status = "error"
        /\ validation.errors /= <<>>
        /\ NothingComputed

\* C17: if validate_data returns status 'error', none of the later steps runs
\* in that invocation (the invocation is at its return, and no capacity
\* table, aggregate, metric table, sheet update or save exists) and the
\* function returns the validation report only.
C17_ErrorStopsThePipeline ==
    (Validated /\ validation.status = "error") =>
        /\ pc = "returned_error"
        /\ NothingComputed
        /\ ReturnedOnlyTheReport

\* A table with a row and without the Title column, reported and returned.
C17_Witness ==
    /\ pc = "returned_error"
    /\ df /= <<>>
    /\ "Title" \notin columns
    /\ validation.status = "error"
    /\ ReturnedOnlyTheReport

\* C18: whenever validate_data returns a report with warnings and a status
\* other than 'error', the invocation does not end without output: what it
\* returns is the saved workbook, with the metric tables and that report.
C18_WarningsNeverBlock ==
    (Validated /\ validation.status /= "error" /\ validation.warnings /= <<>>
     /\ pc \in {"raised", "returned", "returned_error"}) =>
        /\ pc = "returned"
        /\ workbook.saved
        /\ result.processed_data.some
        /\ result.staff_metrics.some /\ result.team_metrics.some
        /\ result.cmmi_measures.some
        /\ result.validation.some
        /\ result.validation.value.warnings = validation.warnings

\* process_azure_data has returned.
Normalized == pc \notin {"uploaded", "raised"} \/ exception.raised_in \notin {"none", "process_azure_data"}

\* C20: process_azure_data never raises and returns one record per input row,
\* in input order; a work-quantity cell that is no number becomes 0, and an
\* 'Assigned To' value without the Name <email> pattern gives no staff_name
\* and no staff_email.
C20_NormalizationIsTotal ==
    /\ exception.raised_in /= "process_azure_data"
    /\ Normalized =>
        /\ Len(azure_data) = Len(df)
        /\ \A i \in 1..Len(df) :
            /\ azure_data[i].Assigned_To = df[i].Assigned_To
            /\ azure_data[i].Activity = df[i].Activity
            /\ (df[i].Original_Estimate.s = <<"x">>) => azure_data[i].Original_Estimate = 0
            /\ (df[i].Assigned_To = NaN) =>
                    azure_data[i].staff_name = NaN /\ azure_data[i].staff_email = NaN

----------------------------------------------------------------------------
(* Properties of the identity parsing *)

\* s without its leading and trailing spaces.
RECURSIVE Trim(_)
Trim(s) ==
    IF s = <<>> THEN s
    ELSE IF IsSpace(s[1]) THEN Trim(Tail(s))
    ELSE IF IsSpace(s[Len(s)]) THEN Trim(SubSeq(s, 1, Len(s) - 1))
    ELSE s

\* The places of the '<' that open a <...> pair: a '>' follows after some text.
PairOpens(s) == {i \in 1..Len(s) : s[i] = "<" /\ \E j \in (i+2)..Len(s) : s[j] = ">"}

\* The last <...> pair: the last such '<' and the first '>' that closes it.
LastOpen(s) == CHOOSE i \in PairOpens(s) : \A y \in PairOpens(s) : y <= i

LastClose(s) ==
    CHOOSE j \in (LastOpen(s)+2)..Len(s) :
        s[j] = ">" /\ \A y \in (LastOpen(s)+2)..(j-1) : s[y] /= ">"

\* The name is the given text, and absent when there is no text.
IsName(name, text) == IF text = <<>> THEN name \in {NaN, <<>>} ELSE name = text

\* C21: for every 'Assigned To' string that contains a <...> pair, staff_name
\* is the trimmed text before the last <...> pair and staff_email is the text
\* inside that pair, also when the string has more than one '<' or '>'.
C21_LastPairIsParsed ==
    (call.op = "extract" /\ call.args[1] /= NaN /\ PairOpens(call.args[1]) /= {}) =>
        LET s == call.args[1]
        IN  /\ IsName(call.ret.staff_name, Trim(SubSeq(s, 1, LastOpen(s) - 1)))
            /\ call.ret.staff_email = SubSeq(s, LastOpen(s) + 1, LastClose(s) - 1)

----------------------------------------------------------------------------
(* Properties of the team mapping, the completion flag and their warnings *)

\* The fixed mapping from Activity to team, as pairs.
MappingPairs ==
    {<<"Development", "Development">>, <<"Front End", "Frontend">>, <<"Design", "Design">>,
     <<"Testing", "Testing">>, <<"Business", "Business">>}

\* The team of the reference: the image of a key, and absent otherwise.
IsTeamOf(team, activity) ==
    IF \E pair \in MappingPairs : pair[1] = activity
    THEN <<activity, team>> \in MappingPairs
    ELSE team = NA

ValidationWarnings(type) == SelectSeq(validation.warnings, LAMBDA w : w.type = type)

\* The rows without a team.
AbsentTeamRows == {i \in 1..Len(azure_data) : azure_data[i].team = NA}

\* C22: a row's team is team_mapping[Activity] when Activity is a key of the
\* mapping and absent otherwise; validate_data records exactly one
\* unmapped_activities warning when some row has no team and none when no row
\* is without one, and its activities are exactly the distinct Activity values
\* of the rows without a team.
C22_UnmappedActivities ==
    Validated =>
        LET w == ValidationWarnings("unmapped_activities")
        IN  /\ Len(azure_data) = Len(df)
            /\ \A i \in 1..Len(df) : IsTeamOf(azure_data[i].team, df[i].Activity)
            /\ Len(w) = IF AbsentTeamRows /= {} THEN 1 ELSE 0
            /\ AbsentTeamRows /= {} =>
                /\ {w[1].activities[j] : j \in 1..Len(w[1].activities)}
                        = {df[i].Activity : i \in AbsentTeamRows}
                /\ Len(w[1].activities) = Cardinality({df[i].Activity : i \in AbsentTeamRows})

\* Two rows of one unmapped activity: one warning that lists it once.
C22_Witness ==
    /\ Validated
    /\ Len(df) = 2
    /\ df[1].Activity = "Ops" /\ df[2].Activity = "Ops"
    /\ Len(ValidationWarnings("unmapped_activities")) = 1
    /\ ValidationWarnings("unmapped_activities")[1].activities = <<"Ops">>

\* The rows with completed work that are not done.
IncompleteWithWork ==
    {i \in 1..Len(df) : df[i].Completed_Work.v > 0 /\ df[i].State \notin {"Done", "Closed"}}

\* C23: is_done is true exactly when State is 'Done' or 'Closed'; validate_data
\* records an incomplete_tasks_with_work warning exactly when some row has
\* Completed Work > 0 and is not done, and its count is the number of such rows.
C23_IncompleteTasksWithWork ==
    Validated =>
        LET w == ValidationWarnings("incomplete_tasks_with_work")
        IN  /\ Len(azure_data) = Len(df)
            /\ \A i \in 1..Len(df) :
                azure_data[i].is_done <=> df[i].State \in {"Done", "Closed"}
            /\ Len(w) = IF IncompleteWithWork /= {} THEN 1 ELSE 0
            /\ IncompleteWithWork /= {} => w[1].count = Cardinality(IncompleteWithWork)

\* A row in state 'done' and a row without a state, both with completed work:
\* neither is done and the warning counts both.
C23_Witness ==
    /\ Validated
    /\ Len(df) = 2
    /\ df[1].State = "done" /\ df[2].State = NA
    /\ ~azure_data[1].is_done /\ ~azure_data[2].is_done
    /\ Len(ValidationWarnings("incomplete_tasks_with_work")) = 1
    /\ ValidationWarnings("incomplete_tasks_with_work")[1].count = 2

----------------------------------------------------------------------------
(* Properties of the metric engine as a whole *)

\* What the last call of the method gave: its exception and its result.
Outcome(op) ==
    CASE op = "calculate_staff_metrics" -> <<exception, staff_metrics>>
      [] op = "calculate_team_metrics" -> <<exception, team_metrics>>
      [] op = "calculate_cmmi_measures" -> <<exception, cmmi_measures>>
      [] op = "validate_metrics" -> <<exception, metrics_validation>>

\* A method called a second time in a row gave what its first call gave.
SecondCallGivesTheSame == (call.op /= "none" /\ call.args[1] = 2) => Outcome(call.op) = call.ret

\* No call changes an input of the engine or the weights of the calculator.
InputsUnchanged ==
    /\ UNCHANGED <<staff_agg, team_agg, capacity_data, azure_data, sprint_metadata,
                   kpi_weights>>
    /\ call'.op = "validate_metrics" => UNCHANGED <<staff_metrics, team_metrics>>

----------------------------------------------------------------------------
(* Properties of the temporary file *)

\* C25: whenever process_sprint_file returns (with processed data, with a
\* validation error, or after a caught exception), the temporary file it wrote
\* from the upload no longer exists on the server.
C25_TempFileIsDeleted == \A i \in Invocations : pc[i] = "returned" => ~temp_file.exists

\* What invocation i returns when no other invocation runs.
ReturnedAlone(i) ==
    CASE columns[i] = "missing_columns" ->
             ReturnValue(NoneValue, Some(i), NoneValue, NoneValue, NoneValue)
      [] columns[i] = "no_capacity_sheet" -> AllNone
      [] OTHER -> ReturnValue(Some(FileOf(i, {i})), Some(i), Some(i), Some(i), Some(i))

\* C26: with the steps of two invocations on different uploads interleaved, each
\* invocation returns the processed data, validation report and metric tables
\* of its own upload, exactly as if it had run alone.
C26_InvocationsAreIsolated == \A i \in Invocations : pc[i] = "returned" => result[i] = ReturnedAlone(i)

----------------------------------------------------------------------------
(* Properties of the sheets *)

\* The row of the Analysis sheet in which update_analysis_sheet wrote the i-th
\* staff member.
AnalysisRowOfStaff(i) == start_row + i

\* C27: the Performance Rate and Utilization cells of the i-th staff row of
\* 'Kpi Indicators' are formulas referencing columns F and H of the row of the
\* '<sprint> Analysis' sheet in which update_analysis_sheet wrote the same i-th
\* staff member.
C27_FormulasFollowAnalysisRows ==
    pc = "append_to_historical_staff" /\ call.op = "none" =>
        LET analysis == AnalysisSheetName(sprint_metadata.sprint_name)
            kpi == workbook["Kpi Indicators"]
        IN  \A i \in 1..Len(staff_metrics) :
                LET row == kpi_start_row + i - 1
                IN  /\ CellValue(kpi, row, 2) = Str(staff_metrics[i].staff_name)
                    /\ CellValue(workbook[analysis], AnalysisRowOfStaff(i), 2)
                           = Str(staff_metrics[i].staff_name)
                    /\ CellValue(kpi, row, 3) = Reference(analysis, "F", AnalysisRowOfStaff(i))
                    /\ CellValue(kpi, row, 5) = Reference(analysis, "H", AnalysisRowOfStaff(i))

HistorySheet == workbook["Kpi Indicators Per Staff"]

\* The rows of the history sheet that hold the name in column B.
RowsOfName(sheet, staff_name) == {r \in 4..max_row(sheet) : CellValue(sheet, r, 2) = Str(staff_name)}

\* The call wrote its sprint name in row 3 of one new column, names into empty
\* cells of column B, and nothing into any other column.
WroteOneNewColumn ==
    LET old == IF "Kpi Indicators Per Staff" \in DOMAIN workbook
               THEN HistorySheet
               ELSE NewSheet
        new == HistorySheet'
        column == max_column(new)
    IN  /\ \A k \in DOMAIN old : k[2] < column
        /\ CellValue(new, 3, column) = Str(call'.args[2])
        /\ \A k \in DOMAIN old : k[2] > 2 => new[k] = old[k]
        /\ \A k \in DOMAIN old : k[2] = 2 /\ k[1] >= 4 /\ old[k] /= Blank => new[k] = old[k]

\* Every name of the call's table is in exactly one row, and that row holds
\* the kpi of every row of the table with that name in the new column.
KpiOfEveryRow ==
    LET new == HistorySheet'
        staff == call'.args[1]
    IN  \A i \in 1..Len(staff) :
            /\ Cardinality(RowsOfName(new, staff[i].staff_name)) = 1
            /\ \A r \in RowsOfName(new, staff[i].staff_name) :
                   CellValue(new, r, max_column(new)) = Num(staff[i].kpi)

\* C28: the k-th call of append_to_historical_staff writes only into one new
\* column (headed by its sprint name in row 3) and into column B for newly
\* seen names, leaves all earlier sprint columns unchanged, every staff name
\* occupies exactly one row, and for every row of the call's staff_metrics the
\* cell at (row of its staff_name, new column) holds that row's kpi.
C28_HistoryIsAppended == [][call'.ret = call.ret + 1 => WroteOneNewColumn /\ KpiOfEveryRow]_vars

----------------------------------------------------------------------------
(* Properties of the Notion export *)

\* The places of the requests to the database, in the order they were sent.
RequestsTo(database) == SelectSeq([k \in 1..Len(requests) |-> k], LAMBDA k : requests[k].database = database)

\* The request is to the staff, team or CMMI database.
IsLaterPage(k) == requests[k].database /= "sprint_summary"

\* C29: no staff, team or CMMI page request is sent before the sprint summary
\* request has returned status 200, every such request carries the id that
\* request returned as its Sprint relation, and when the sprint summary
\* request fails or its database id is not configured export_all raises and
\* no request for another page is sent.
C29_SprintPageComesFirst ==
    /\ \A k \in 1..Len(requests) : IsLaterPage(k) =>
           /\ k > 1
           /\ requests[1].database = "sprint_summary"
           /\ ~requests[1].response.raised
           /\ requests[1].response.status_code = 200
           /\ requests[k].sprint = requests[1].response.id
    /\ ("sprint_summary" \notin database_ids /\ pc /= "create_sprint_summary_page") =>
           /\ pc = "raised"
           /\ exception = Raised("ValueError", "create_sprint_summary_page")
           /\ requests = <<>>
    /\ (requests /= <<>> /\ (requests[1].response.raised \/ requests[1].response.status_code /= 200)) =>
           /\ pc = "raised"
           /\ exception.raised_in = "create_sprint_summary_page"
           /\ Len(requests) = 1

\* export_all has returned after a staff, a team and the CMMI page request.
C29_Witness ==
    /\ pc = "returned"
    /\ Len(requests) >= 4
    /\ result.staff_pages /= <<>>
    /\ result.team_pages /= <<>>

\* The ids of the created pages among the requests at the places, in order.
RECURSIVE CreatedIds(_)
CreatedIds(places) ==
    IF places = <<>> THEN <<>>
    ELSE (IF requests[places[1]].response.status_code = 200
          THEN <<requests[places[1]].response.id>>
          ELSE <<>>) \o CreatedIds(Tail(places))

\* The page function was called and has ended: with its return or an exception.
HasEnded(function, after) == pc \in after \/ (pc = "raised" /\ exception.raised_in = function)

\* The call of a page function on the rows sent one request per row, in row
\* order, and returned the ids of the pages created.
OneRequestPerRow(function, database, titles, pages) ==
    IF database \notin database_ids
    THEN /\ pc = "raised"
         /\ exception = Raised("ValueError", function)
         /\ RequestsTo(database) = <<>>
    ELSE /\ pc /= "raised" \/ exception.raised_in /= function
         /\ Len(RequestsTo(database)) = Len(titles)
         /\ \A i \in 1..Len(titles) : requests[RequestsTo(database)[i]].title = titles[i]
         /\ pages = CreatedIds(RequestsTo(database))

\* C30: in create_staff_performance_pages and create_team_performance_pages a
\* failed request for one row never aborts the loop: exactly one request is
\* sent per metrics row in row order, the returned list holds exactly the ids
\* of the requests that returned status 200, in that order, and no request is
\* sent when the database id is not configured (ValueError).
C30_FailedRowsAreSkipped ==
    /\ HasEnded("create_staff_performance_pages", {"create_team_performance_pages", "team_loop", "create_cmmi_history_page", "returned"}) =>
           OneRequestPerRow("create_staff_performance_pages", "staff_performance",
                            [i \in 1..Len(staff_metrics) |-> staff_metrics[i].staff_name],
                            result.staff_pages)
    /\ HasEnded("create_team_performance_pages", {"create_cmmi_history_page", "returned"}) =>
           OneRequestPerRow("create_team_performance_pages", "team_performance",
                            [i \in 1..Len(team_metrics) |-> team_metrics[i].team],
                            result.team_pages)

====
